---- MODULE Spec2Model ----
(***************************************************************************)
(* Fit-Simulator: the job submission controller (api/fit/simulate) and the *)
(* signed access gateway (api/fit/job/[job_id], api/fit/preview,           *)
(* api/fit/download/[job_id], api/fit/share) as a state machine over the   *)
(* fit.jobs table, the fit.sim_metrics table and the fit-previews bucket.  *)
(*                                                                         *)
(* Strings that the code inspects by prefix (storage paths) are sequences  *)
(* of tokens, so that `${user.id}/` is the two-token prefix <<uid, "/">>.  *)
(* A null / undefined / '' value of a string column is the empty sequence  *)
(* (all three are falsy in the code); an optional value is a set with at   *)
(* most one element.                                                       *)
(***************************************************************************)
EXTENDS Integers, Sequences, FiniteSets, TLC

(* ------------------------------ bounds --------------------------------- *)
\* submit requests by identified callers that a behaviour contains
MaxSubmits == 1

\* the largest retryAttempts a PerformanceConfig is given
MaxAttempts == 2

\* the most files a candidate set for upload holds
MaxFiles == 4

\* the largest number of objects the upload page writes
MaxOriginals == 5

\* the most entries the error logger is followed to
MaxLogs == 2

(* ----------------------------- identities ------------------------------ *)
Users == {"u1", "u2"}

\* bearer tokens the identity provider knows, and one it rejects
Tokens == {"t1", "t2", "tx"}

\* the Authorization header: absent, another scheme, or 'Bearer <token>'
Headers ==
    {[scheme |-> "none", token |-> ""], [scheme |-> "Basic", token |-> "t1"]}
    \cup {[scheme |-> "Bearer", token |-> t] : t \in Tokens}

\* supabaseAuth.getUser(token): the user of a valid token, else an error
getUser(token) ==
    CASE token = "t1" -> [user |-> "u1", error |-> FALSE]
      [] token = "t2" -> [user |-> "u2", error |-> FALSE]
      [] OTHER -> [user |-> "", error |-> TRUE]

\* a faulty variant: any header with a token is taken as a bearer credential
StartsWithBearer_AnyScheme(hdr) == hdr.scheme # "none"

\* authHeader.startsWith('Bearer ')
StartsWithBearer(hdr) == hdr.scheme = "Bearer"

\* the first lines of every handler: header check, then getUser(token).
\* called: whether the identity provider was asked; ok: a user resolved
Authenticate(hdr) ==
    IF hdr.scheme = "none" \/ ~StartsWithBearer(hdr)
    THEN [ok |-> FALSE, called |-> FALSE, user |-> ""]
    ELSE LET g == getUser(hdr.token)
         IN  [ok |-> ~(g.error \/ g.user = ""), called |-> TRUE,
              user |-> g.user]

(* ------------------------------- paths --------------------------------- *)
\* s.startsWith(p)
StartsWith(s, p) == Len(s) >= Len(p) /\ SubSeq(s, 1, Len(p)) = p

\* a faulty variant: the prefix is the user id without the separating slash
OwnsPath_NoSlash(uid, path) == path # <<>> /\ StartsWith(path, <<uid>>)

\* itemPath && itemPath.startsWith(`${user.id}/`)
OwnsPath(uid, path) == path # <<>> /\ StartsWith(path, <<uid, "/">>)

\* a faulty variant: one artifact name for all the jobs of a user
PreviewPath_PerUser(uid, jobId) == <<uid, "/", "preview", ".webp">>

\* `${user.id}/${jobId}.webp`
PreviewPath(uid, jobId) == <<uid, "/", jobId, ".webp">>

(* ------------------------------ job rows ------------------------------- *)
JobRow(id, uid, person, items, preview, dur, status) ==
    [id |-> id, user_id |-> uid, person_path |-> person, item_paths |-> items,
     preview_path |-> preview, duration_ms |-> dur, status |-> status]

MetricsRow(jobId, uid, dur, status) ==
    [job_id |-> jobId, user_id |-> uid, duration_ms |-> dur, status |-> status]

\* a faulty variant: the lookup is not filtered by id (the first row is taken)
SelectJob_Unfiltered(rows, jobId) ==
    IF rows = {} THEN {} ELSE {CHOOSE r \in rows : TRUE}

\* .from('jobs').select(...).eq('id', jobId).single(): the one matching row,
\* an error when no row (or more than one) matches
SelectJob(rows, jobId) ==
    LET m == {r \in rows : r.id = jobId}
    IN  IF Cardinality(m) = 1 THEN m ELSE {}

\* a faulty variant: a job row is served to any identified caller
IsOwner_Anyone(job, uid) == TRUE

\* job.user_id !== user.id is the 403 exit
IsOwner(job, uid) == job.user_id = uid

\* a faulty variant: every job is taken to have a preview
HasPreview_Always(job) == TRUE

\* job.preview_path is truthy
HasPreview(job) == job.preview_path # <<>>

(* ----------------------------- signed URLs ----------------------------- *)
Max(a, b) == IF a >= b THEN a ELSE b

\* a faulty variant: the lifetime is not clamped to one minute
ExpiresIn_NoClamp(days) == (days.num * 86400) \div days.den

\* Math.max(60, Math.floor(days * 86400)), days = num/den
ExpiresIn(days) == Max(60, (days.num * 86400) \div days.den)

\* a faulty variant: the error result of createSignedUrl is not looked at
SigningError_Never(answer) == FALSE

\* signedUrlError (or no data) in the result of createSignedUrl
SigningError(answer) == answer # "ok"

\* what createSignedUrl(path, expiresIn) returns
SignedUrl(path, expiresIn) == [path |-> path, expiresIn |-> expiresIn]

(* ------------------------------ responses ------------------------------ *)
\* a response: the HTTP status, the JSON body's success and error fields,
\* and what it carries (job fields, signed URL, expiry, bytes, job id)
Resp(status, success, error) ==
    [status |-> status, success |-> success, error |-> error,
     job |-> {}, signedUrl |-> {}, expiresAt |-> {}, bytes |-> {},
     jobId |-> {}, duration_ms |-> {}]

\* what one invocation did: its response, the calls it made, in order, and
\* the rows and objects it sent to the stores
Out(resp, ops) ==
    [resp |-> resp, ops |-> ops, jobInserts |-> <<>>, metricsInserts |-> <<>>,
     uploads |-> <<>>, logged |-> <<>>]

(* --------------------------- the read gateway -------------------------- *)
\* the calls made up to the end of authentication
AuthOps(a) == IF a.called THEN <<"auth.getUser">> ELSE <<>>

\* the object stored at a path, if any (storage.download)
ObjectAt(objs, path) == {o.bytes : o \in {x \in objs : x.path = path}}

\* GET api/fit/job/[job_id] (view): job fields plus a signed URL.
\* sign: what createSignedUrl answers ("ok", "error", "throw")
GET_job(hdr, jobId, sign, now, rows, days) ==
    IF jobId = ""
    THEN Out(Resp(400, "false", "Job ID is required"), <<>>)
    ELSE
    LET a == Authenticate(hdr) IN
    IF ~a.called
    THEN Out(Resp(401, "none", "Missing or invalid authorization header"),
             AuthOps(a))
    ELSE IF ~a.ok
    THEN Out(Resp(401, "none", "Invalid or expired token"), AuthOps(a))
    ELSE
    LET sel == SelectJob(rows, jobId)
        ops1 == AuthOps(a) \o <<"jobs.select">>
    IN
    IF sel = {}
    THEN Out(Resp(404, "false", "Job not found"), ops1)
    ELSE
    LET job == CHOOSE r \in sel : TRUE IN
    IF ~IsOwner(job, a.user)
    THEN Out(Resp(403, "false", "Access denied"), ops1)
    ELSE IF ~HasPreview(job)
    THEN Out([Resp(200, "true", "") EXCEPT !.job = {job}], ops1)
    ELSE
    LET expiresIn == ExpiresIn(days)
        ops2 == ops1 \o <<"storage.createSignedUrl">>
    IN
    IF sign # "throw" /\ ~SigningError(sign)
    THEN Out([Resp(200, "true", "") EXCEPT
                 !.job = {job},
                 !.signedUrl = {SignedUrl(job.preview_path, expiresIn)},
                 !.expiresAt = {now + expiresIn * 1000}], ops2)
    ELSE Out([Resp(200, "true", "") EXCEPT !.job = {job}], ops2)

\* POST api/fit/preview (fetch preview bytes).
\* body: {} when request.json() throws, else {job_id}
POST_preview(hdr, body, download, rows, objs) ==
    LET a == Authenticate(hdr) IN
    IF ~a.called
    THEN Out(Resp(401, "none", "Missing or invalid authorization header"),
             AuthOps(a))
    ELSE IF ~a.ok
    THEN Out(Resp(401, "none", "Invalid or expired token"), AuthOps(a))
    ELSE IF body = {}
    THEN Out(Resp(500, "none", "Internal server error during preview loading"),
             AuthOps(a))
    ELSE
    LET job_id == CHOOSE j \in body : TRUE IN
    IF job_id = ""
    THEN Out(Resp(400, "none", "job_id is required"), AuthOps(a))
    ELSE
    LET sel == SelectJob(rows, job_id)
        ops1 == AuthOps(a) \o <<"jobs.select">>
    IN
    IF sel = {}
    THEN Out(Resp(404, "none", "Job not found"), ops1)
    ELSE
    LET job == CHOOSE r \in sel : TRUE IN
    IF ~IsOwner(job, a.user)
    THEN Out(Resp(403, "none", "Access denied"), ops1)
    ELSE IF ~HasPreview(job)
    THEN Out(Resp(404, "none", "No preview available for this job"), ops1)
    ELSE
    LET data == IF download = "ok" THEN ObjectAt(objs, job.preview_path)
                ELSE {}
        ops2 == ops1 \o <<"storage.download">>
    IN
    IF data = {}
    THEN Out(Resp(500, "none", "Failed to load preview image"), ops2)
    ELSE Out([Resp(200, "none", "") EXCEPT !.bytes = data], ops2)

\* GET api/fit/download/[job_id]
GET_download(hdr, jobId, download, rows, objs) ==
    IF jobId = ""
    THEN Out(Resp(400, "none", "Job ID is required"), <<>>)
    ELSE
    LET a == Authenticate(hdr) IN
    IF ~a.ok
    THEN Out(Resp(401, "none", "Invalid or expired token"), AuthOps(a))
    ELSE
    LET sel == SelectJob(rows, jobId)
        ops1 == AuthOps(a) \o <<"jobs.select">>
    IN
    IF sel = {}
    THEN Out(Resp(404, "none", "Job not found"), ops1)
    ELSE
    LET job == CHOOSE r \in sel : TRUE IN
    IF ~IsOwner(job, a.user)
    THEN Out(Resp(403, "none", "Access denied"), ops1)
    ELSE IF ~HasPreview(job)
    THEN Out(Resp(404, "none", "No preview available for this job"), ops1)
    ELSE
    LET data == IF download = "ok" THEN ObjectAt(objs, job.preview_path)
                ELSE {}
        ops2 == ops1 \o <<"storage.download">>
    IN
    IF data = {}
    THEN Out(Resp(500, "none", "Failed to download file"), ops2)
    ELSE Out([Resp(200, "none", "") EXCEPT !.bytes = data], ops2)

\* POST api/fit/share: a signed URL and its expiry
POST_share(hdr, body, sign, now, rows, days) ==
    LET a == Authenticate(hdr) IN
    IF ~a.called
    THEN Out(Resp(401, "none", "Missing or invalid authorization header"),
             AuthOps(a))
    ELSE IF ~a.ok
    THEN Out(Resp(401, "none", "Invalid or expired token"), AuthOps(a))
    ELSE IF body = {}
    THEN Out(Resp(500, "false", "Internal server error during sharing"),
             AuthOps(a))
    ELSE
    LET job_id == CHOOSE j \in body : TRUE IN
    IF job_id = ""
    THEN Out(Resp(400, "none", "job_id is required"), AuthOps(a))
    ELSE
    LET sel == SelectJob(rows, job_id)
        ops1 == AuthOps(a) \o <<"jobs.select">>
    IN
    IF sel = {}
    THEN Out(Resp(404, "none", "Job not found"), ops1)
    ELSE
    LET job == CHOOSE r \in sel : TRUE IN
    IF ~IsOwner(job, a.user)
    THEN Out(Resp(403, "none", "Access denied"), ops1)
    ELSE IF ~HasPreview(job)
    THEN Out(Resp(404, "none", "No preview available for this job"), ops1)
    ELSE
    LET expiresIn == ExpiresIn(days)
        ops2 == ops1 \o <<"storage.createSignedUrl">>
    IN
    IF sign = "throw"
    THEN Out(Resp(500, "false", "Internal server error during sharing"), ops2)
    ELSE IF SigningError(sign)
    THEN Out(Resp(500, "false", "Failed to create shareable link"), ops2)
    ELSE Out([Resp(200, "true", "") EXCEPT
                 !.signedUrl = {SignedUrl(job.preview_path, expiresIn)},
                 !.expiresAt = {now + expiresIn * 1000}], ops2)

(* ----------------------- the submission controller --------------------- *)
\* a faulty variant: upsert is true and an occupied path is overwritten
UploadError_Upsert(objs, path, fault) == fault

\* storage.from('fit-previews').upload(path, bytes, {upsert: false}): an
\* error when the service fails or the path is occupied
UploadError(objs, path, fault) == fault \/ ObjectAt(objs, path) # {}

\* storage.list(user.id, {search: `${jobId}.webp`}): found unless the call
\* fails or returns no entry
ListFinds(objs, path, fault) ==
    fault \notin {"list_error", "list_empty"} /\ ObjectAt(objs, path) # {}

\* a faulty variant: every successful job is recorded as a live one
SuccessStatus_AlwaysLive(live) == "completed"

\* geminiClient.isLiveMode ? 'completed' : 'completed_stub'
SuccessStatus(live) == IF live THEN "completed" ELSE "completed_stub"

\* recordSimulationMetrics: one insert into fit.sim_metrics, whose failure
\* (an error result or an exception) is logged and swallowed
recordSimulationMetrics(jobId, uid, dur, status, answer) ==
    <<[row |-> MetricsRow(jobId, uid, dur, status), stored |-> answer = "ok"]>>

\* a faulty variant: the ownership failure is answered without a metrics record
DeniedMetrics_None(uid, dur, answer) == <<>>

\* the metrics call of the two 'denied' exits
DeniedMetrics(uid, dur, answer) ==
    recordSimulationMetrics({}, uid, dur, "denied", answer)

\* a faulty variant: a failure after the ownership check is recorded as 'denied'
ErrorMetrics_Denied(jobId, uid, dur, answer) ==
    recordSimulationMetrics(jobId, uid, dur, "denied", answer)

\* the metrics call of every 'error' exit
ErrorMetrics(jobId, uid, dur, answer) ==
    recordSimulationMetrics(jobId, uid, dur, "error", answer)

\* a faulty variant: a failed Job insert is thrown and fails the request
FailsOnJobInsertError_Throws(fault) == fault = "job_insert"

\* if (jobInsertError) only logs: a failed Job insert never ends the request
FailsOnJobInsertError(fault) == FALSE

\* .from('jobs').insert({id: jobId, ...}): an error when the service fails
\* or a row with this id exists (id is the key rows are looked up by)
JobInsertError(rows, id, fault) ==
    fault = "job_insert" \/ \E r \in rows : r.id = id

\* the loop over itemPaths: some element fails the ownership check
SomeItemDenied(uid, itemPaths) ==
    \E i \in 1..Len(itemPaths) : ~OwnsPath(uid, itemPaths[i])

\* a handler result with the rows and objects it sent
SimOut(resp, ops, ups, jobIns, metIns) ==
    [resp |-> resp, ops |-> ops, jobInserts |-> jobIns,
     metricsInserts |-> metIns, uploads |-> ups, logged |-> <<>>]

\* what errorLogger.logError pushes to its logs array: the entry, without
\* its message, stack and timestamp
LoggedError(category, severity, userId, jobId, action) ==
    <<[category |-> category, severity |-> severity, userId |-> userId,
       jobId |-> jobId, action |-> action]>>

\* POST api/fit/simulate.
\* body: {} when request.json() throws, else {[personPath, itemPaths]};
\* env.fault: the first call that fails ("none" when none does);
\* env.metrics: what the sim_metrics insert answers; env.image: the bytes
\* the backend returns; uuid: crypto.randomUUID(); d: Date.now() - startTime
POST_simulate(hdr, body, env, uuid, d, rows, objs, live, days) ==
    LET a == Authenticate(hdr) IN
    IF ~a.called
    THEN Out(Resp(401, "none", "Missing or invalid authorization header"),
             AuthOps(a))
    ELSE IF ~a.ok
    THEN [Out(Resp(401, "none", "Invalid or expired token"), AuthOps(a))
             EXCEPT !.logged = LoggedError("auth", "high", {}, {},
                                           "simulate")]
    ELSE
    LET uid == a.user
        ops0 == AuthOps(a)
        mop == <<"sim_metrics.insert">>
    IN
    IF body = {}
    THEN SimOut(Resp(500, "false", "Internal server error during simulation"),
                ops0 \o mop, <<>>, <<>>,
                ErrorMetrics({}, uid, d, env.metrics))
    ELSE
    LET b == CHOOSE x \in body : TRUE
        personPath == b.personPath
        itemPaths == b.itemPaths
    IN
    IF ~OwnsPath(uid, personPath) \/ SomeItemDenied(uid, itemPaths)
    THEN LET m == DeniedMetrics(uid, d, env.metrics)
         IN  SimOut(Resp(403, "none", "Ownership validation failed"),
                    ops0 \o [i \in 1..Len(m) |-> "sim_metrics.insert"],
                    <<>>, <<>>, m)
    ELSE
    LET jobId == uuid
        ops1 == ops0 \o <<"gemini.generateImage">>
        err == ErrorMetrics({jobId}, uid, d, env.metrics)
        R500(msg) == [Resp(500, "false", msg) EXCEPT !.duration_ms = {d}]
    IN
    IF env.fault = "gen_throw"
    THEN SimOut(R500("Internal server error during simulation"),
                ops1 \o mop, <<>>, <<>>, err)
    ELSE IF env.fault = "gen_fail"
    THEN SimOut(R500("Image generation failed"), ops1 \o mop, <<>>, <<>>, err)
    ELSE
    LET previewPath == PreviewPath(uid, jobId)
        upErr == UploadError(objs, previewPath, env.fault = "upload")
        up == <<[path |-> previewPath, bytes |-> env.image,
                 stored |-> ~upErr]>>
        ops2 == ops1 \o <<"storage.upload">>
        objs2 == IF upErr THEN objs
                 ELSE objs \cup {[path |-> previewPath, bytes |-> env.image]}
    IN
    IF upErr
    THEN [SimOut(R500("Failed to store preview image"), ops2 \o mop,
                 up, <<>>, err)
             EXCEPT !.logged = LoggedError("storage", "high", {uid}, {jobId},
                                           "upload_preview")]
    ELSE
    LET ops3 == ops2 \o <<"storage.list">> IN
    IF ~ListFinds(objs2, previewPath, env.fault)
    THEN SimOut(R500("Failed to verify preview image storage"), ops3 \o mop,
                up, <<>>, err)
    ELSE
    LET expiresIn == ExpiresIn(days)
        ops4 == ops3 \o <<"storage.createSignedUrl">>
    IN
    IF env.fault \in {"sign_error", "sign_nodata"}
    THEN SimOut(R500("Failed to create preview URL"), ops4 \o mop,
                up, <<>>, err)
    ELSE
    LET previewUrl == SignedUrl(previewPath, expiresIn)
        status == SuccessStatus(live)
        row == JobRow(jobId, uid, personPath, itemPaths, previewPath, d,
                      status)
        ins == <<[row |-> row,
                  stored |-> ~JobInsertError(rows, jobId, env.fault)]>>
        ops5 == ops4 \o <<"jobs.insert">>
    IN
    IF FailsOnJobInsertError(env.fault)
    THEN SimOut(R500("Internal server error during simulation"),
                ops5 \o mop, up, ins, err)
    ELSE SimOut([Resp(200, "true", "") EXCEPT
                    !.signedUrl = {previewUrl}, !.jobId = {jobId},
                    !.duration_ms = {d}],
                ops5 \o mop, up, ins,
                recordSimulationMetrics({jobId}, uid, d, status, env.metrics))

(* ------------------------------- inputs -------------------------------- *)
\* job ids crypto.randomUUID() may return
NewId(k) == "n" \o ToString(k)

NewIds == {NewId(k) : k \in 1..MaxSubmits}

\* the values Date.now() - startTime takes (ms)
Durations == {0, 1}

\* the values Date.now() takes when a signed URL is issued (ms)
Clock == {0, 1}

\* rows written before this deployment: one job without a preview (the
\* preview_path column is nullable) and one complete job
SeedJobs ==
    {JobRow("j0", "u1", <<"u1", "/", "p.png">>, <<>>, <<>>, 0,
            "completed_stub"),
     JobRow("j1", "u2", <<"u2", "/", "p.png">>, <<>>,
            PreviewPath("u2", "j1"), 0, "completed")}

SeedObjects == {[path |-> PreviewPath("u2", "j1"), bytes |-> "img0"]}

\* job ids a client may ask for: stored ones, ones still to be issued, and
\* one that never exists
RequestIds == {"j0", "j1", "zz"} \cup NewIds

\* a JSON body {job_id}: unparsable, without job_id, or with one
JobIdBodies == {{}, {""}} \cup {{j} : j \in RequestIds}

PersonPaths ==
    {<<>>, <<"u1", "/", "p.png">>, <<"u2", "/", "p.png">>,
     <<"u1", "0", "/", "p.png">>}

\* itemPaths: none, one, two or four paths; the handler takes a list of
\* any length
ItemPathLists ==
    {<<>>, << <<"u1", "/", "a.png">> >>, << <<"u2", "/", "a.png">> >>,
     << <<"u1", "/", "a.png">>, <<"u2", "/", "a.png">> >>,
     << <<"u1", "/", "a.png">>, <<>> >>,
     << <<"u1", "/", "a.png">>, <<"u1", "/", "b.png">>,
        <<"u1", "/", "c.png">>, <<"u1", "/", "d.png">> >>}

SimulateBodies ==
    {{}} \cup {{[personPath |-> p, itemPaths |-> i]} :
                 p \in PersonPaths, i \in ItemPathLists}

\* what goes wrong during a submit request: nothing, one service call, or
\* crypto.randomUUID() returning an id that is in use
Faults ==
    {"none", "gen_fail", "gen_throw", "upload", "list_error", "list_empty",
     "sign_error", "sign_nodata", "job_insert", "uuid_reused"}

\* what the sim_metrics insert answers: stored, an error result, a throw
MetricsAnswers == {"ok", "error", "throw"}

SignAnswers == {"ok", "error", "throw"}

DownloadAnswers == {"ok", "error"}

\* NEXT_PUBLIC_SHARE_LINK_TTL_DAYS as a fraction num/den of a day: '0',
\* half a minute, '0.001' (86.4 seconds) and '1'
TtlDays ==
    {[num |-> 0, den |-> 1], [num |-> 1, den |-> 2880],
     [num |-> 1, den |-> 1000], [num |-> 1, den |-> 1]}

Configs == [live : BOOLEAN, ttlDays : TtlDays]

\* NEXT_PUBLIC_SHARE_LINK_TTL_DAYS is not set (or is the empty string): no
\* fraction has the denominator 0
NotConfigured == [num |-> 0, den |-> 0]

\* process.env.NEXT_PUBLIC_SHARE_LINK_TTL_DAYS || '1' of the submit route
TtlSetting(v) == IF v = NotConfigured THEN [num |-> 1, den |-> 1] ELSE v

\* the module guard of the view and share routes: the route module throws
\* while it is loaded when the setting is missing
RouteLoads(v) == v # NotConfigured

\* the answer to a request for a route whose module did not load: no
\* handler runs
LoadFailure ==
    Out(Resp(500, "none", "NEXT_PUBLIC_SHARE_LINK_TTL_DAYS missing"), <<>>)

(* ------------------------------- state --------------------------------- *)
\* jobs: the rows of fit.jobs; sim_metrics: the rows of fit.sim_metrics, in
\* insertion order; objects: the fit-previews bucket; config: the process
\* environment; served: submit requests of identified callers so far;
\* last: the request in flight with the calls and the response it produced;
\* prev: the request answered before it, where a client keeps it
VARIABLES jobs, sim_metrics, objects, config, served, last, prev

\* logs: the logs array of the errorLogger singleton of the server process
VARIABLES logs

\* A PerformanceMonitor and one call of its executeWithRetry.
\* perfConfig: this.config; startTime: this.startTime; time: Date.now();
\* pc: where executeWithRetry stands; attempt, lastError: its locals;
\* timer: when the pending setTimeout fires; plan: how the k-th invocation
\* of the wrapped operation behaves; calls: the invocations made;
\* outcome: what executeWithRetry returned or threw
VARIABLES perfConfig, startTime, time, pc, attempt, lastError, timer, plan,
          calls, outcome

monitor ==
    <<perfConfig, startTime, time, pc, attempt, lastError, timer, plan,
      calls, outcome>>

\* The upload pre-validation. files: the candidate set (FileUploadMetadata[]);
\* validation: the result of validateUpload on it, once it has run;
\* reply: the request to POST api/fit/upload made with it, and the answer
VARIABLES files, validation, reply

\* lastAdd: the last call of canAddFile on the candidate set, with the file
\* it was asked about and its result
VARIABLES lastAdd

upload == <<files, validation, reply, lastAdd>>

\* The upload page of one signed-in user. personFile, itemFiles, pageErrors:
\* the page's state (personFile is null or one file); originals: what the
\* page wrote to the 'fit-originals' bucket, in order; navigated: the page
\* went on to /simulation
VARIABLES personFile, itemFiles, pageErrors, originals, navigated

page == <<personFile, itemFiles, pageErrors, originals, navigated>>

\* what the handlers of the gateway and the controller never touch
aux == <<prev, monitor, upload, page>>

vars == <<jobs, sim_metrics, objects, config, served, last, logs, aux>>

\* ids that occur in a store
UsedIds ==
    {r.id : r \in jobs} \cup {o.path[3] : o \in objects}
    \cup UNION {sim_metrics[i].job_id : i \in 1..Len(sim_metrics)}

\* what crypto.randomUUID() returns: an id never seen before (ids are
\* opaque, the first unused one stands for all of them) or, when it repeats
\* itself, the id of a stored row or object
RandomUUIDs(reused) ==
    IF reused THEN {r.id : r \in jobs} \cup {o.path[3] : o \in objects}
    ELSE LET unused == {k \in 1..MaxSubmits : NewId(k) \notin UsedIds}
         IN  {NewId(k) : k \in {j \in unused : \A i \in unused : j <= i}}

NoOut == Out(Resp(0, "none", ""), <<>>)

Request(op, hdr, jobId, body, env, out) ==
    [op |-> op, hdr |-> hdr, jobId |-> jobId, body |-> body, env |-> env,
     out |-> out]

NoEnv == [fault |-> "none", metrics |-> "ok", image |-> "img1", now |-> 0]

\* what the environment answered to a read request: createSignedUrl,
\* download, and Date.now() when the expiry is computed
ReadEnv(sign, download, now) ==
    [fault |-> sign, metrics |-> download, image |-> "img1", now |-> now]

Idle ==
    Request("none", [scheme |-> "none", token |-> ""], "", {}, NoEnv, NoOut)

\* the default configuration of a monitor (times in ms)
DEFAULT_PERFORMANCE_CONFIG ==
    [maxDurationMs |-> 60000, retryAttempts |-> 2, retryDelayMs |-> 2000,
     timeoutMs |-> 30000]

\* Date.now() when the monitor is constructed: any value beyond every
\* configured maxDurationMs (the real clock counts from 1970)
ConstructedAt == 100000

NoOutcome == [kind |-> "none", value |-> 0, attempts |-> 0, lastError |-> {},
              totalTime |-> 0]

\* a monitor on which nothing was called yet
InitMonitor(cfg, behaviour) ==
    /\ perfConfig = cfg
    /\ startTime = 0
    /\ time = ConstructedAt
    /\ pc = "idle"
    /\ attempt = 0
    /\ lastError = {}
    /\ timer = 0
    /\ plan = behaviour
    /\ calls = <<>>
    /\ outcome = NoOutcome

\* no file selected, nothing validated
InitUpload ==
    /\ files = <<>>
    /\ validation = {}
    /\ reply = {}
    /\ lastAdd = {}
    /\ personFile = {}
    /\ itemFiles = <<>>
    /\ pageErrors = <<>>
    /\ originals = <<>>
    /\ navigated = FALSE

InitStores ==
    /\ logs = <<>>
    /\ jobs = SeedJobs
    /\ objects = SeedObjects
    /\ sim_metrics = <<>>
    /\ served = 0
    /\ last = Idle
    /\ prev = Idle

\* the start of the server with one configuration, for the parts of the
\* program that make no request to it
InitQuiet ==
    /\ InitStores
    /\ config = [live |-> FALSE, ttlDays |-> [num |-> 1, den |-> 1]]
    /\ InitMonitor(DEFAULT_PERFORMANCE_CONFIG, <<>>)
    /\ InitUpload

Init ==
    /\ InitStores
    /\ config \in Configs
    /\ InitMonitor(DEFAULT_PERFORMANCE_CONFIG, <<>>)
    /\ InitUpload

\* a faulty variant: what a store refused is in it all the same
Stored_Regardless(entries) == {entries[i] : i \in 1..Len(entries)}

\* the rows and objects of a result that the stores accepted
Stored(entries) ==
    {entries[i] : i \in {k \in 1..Len(entries) : entries[k].stored}}

\* one invocation of POST api/fit/simulate and what it leaves in the stores
Submit(hdr, body, env, uuid, d) ==
    LET out == POST_simulate(hdr, body, env, uuid, d, jobs, objects,
                             config.live, TtlSetting(config.ttlDays))
        mets == Stored(out.metricsInserts)
    IN  /\ jobs' = jobs \cup {e.row : e \in Stored(out.jobInserts)}
        /\ objects' = objects \cup
               {[path |-> e.path, bytes |-> e.bytes] :
                    e \in Stored(out.uploads)}
        /\ sim_metrics' =
               IF mets = {} THEN sim_metrics
               ELSE Append(sim_metrics, out.metricsInserts[1].row)
        /\ last' = Request("simulate", hdr, uuid, body, env, out)
        /\ served' = IF Authenticate(hdr).ok THEN served + 1 ELSE served
        /\ UNCHANGED <<config, aux>>

\* whether the handler gets as far as crypto.randomUUID()
PassesOwnership(uid, body) ==
    /\ body # {}
    /\ \A b \in body :
        OwnsPath(uid, b.personPath) /\ ~SomeItemDenied(uid, b.itemPaths)

\* A handler runs from request to response as one step: last holds the
\* request in flight and its result until Respond delivers it.
\* A submit request: the environment answers only the calls the handler
\* makes: the body is read after authentication, the metrics insert is
\* answered for an identified caller, an id is drawn and the backend and
\* storage answer after the ownership check
Submission ==
    /\ last = Idle
    /\ \E hdr \in Headers :
        \/ /\ ~Authenticate(hdr).ok
           /\ Submit(hdr, {}, NoEnv, "", 0)
        \/ /\ Authenticate(hdr).ok
           /\ served < MaxSubmits
           /\ \E body \in SimulateBodies, m \in MetricsAnswers,
                 d \in Durations :
               \/ /\ ~PassesOwnership(Authenticate(hdr).user, body)
                  /\ Submit(hdr, body, [NoEnv EXCEPT !.metrics = m], "", d)
               \/ /\ PassesOwnership(Authenticate(hdr).user, body)
                  /\ \E f \in Faults :
                        \E uuid \in RandomUUIDs(f = "uuid_reused") :
                            Submit(hdr, body,
                                   [NoEnv EXCEPT !.fault = f, !.metrics = m],
                                   uuid, d)

\* Spec follows the stores and the responses; the entries a submit request
\* logs are in its result (last.out.logged), and the logger's array, which
\* no handler reads, is followed in SpecLog
Simulate == Submission /\ UNCHANGED logs

\* whether a result called the service op
Calls(out, op) == \E i \in 1..Len(out.ops) : out.ops[i] = op

\* a faulty variant: serving a read request empties the bucket
Serve_Purging(req) ==
    /\ last' = req
    /\ objects' = {}
    /\ UNCHANGED <<jobs, sim_metrics, config, served, logs, aux>>

\* a read request: it changes nothing but the response in flight
Serve(req) ==
    /\ last' = req
    /\ UNCHANGED <<jobs, sim_metrics, objects, config, served, logs, aux>>

\* The storage service answers only the requests that reach it: a request
\* that ends before createSignedUrl / download has no such answer, and the
\* clock is read only after createSignedUrl succeeded
View ==
    /\ last = Idle
    /\ \E hdr \in Headers, jobId \in RequestIds :
        LET run(sign, now) ==
                Request("view", hdr, jobId, {}, ReadEnv(sign, "ok", now),
                        GET_job(hdr, jobId, sign, now, jobs, config.ttlDays))
        IN  IF ~RouteLoads(config.ttlDays)
            THEN Serve(Request("view", hdr, jobId, {}, ReadEnv("ok", "ok", 0),
                               LoadFailure))
            ELSE IF Calls(run("ok", 0).out, "storage.createSignedUrl")
            THEN \E sign \in SignAnswers :
                     IF sign = "ok"
                     THEN \E now \in Clock : Serve(run(sign, now))
                     ELSE Serve(run(sign, 0))
            ELSE Serve(run("ok", 0))

Preview ==
    /\ last = Idle
    /\ \E hdr \in Headers, body \in JobIdBodies :
        LET run(download) ==
                Request("preview", hdr, "", body, ReadEnv("ok", download, 0),
                        POST_preview(hdr, body, download, jobs, objects))
        IN  IF Calls(run("ok").out, "storage.download")
            THEN \E download \in DownloadAnswers : Serve(run(download))
            ELSE Serve(run("ok"))

Download ==
    /\ last = Idle
    /\ \E hdr \in Headers, jobId \in RequestIds :
        LET run(download) ==
                Request("download", hdr, jobId, {}, ReadEnv("ok", download, 0),
                        GET_download(hdr, jobId, download, jobs, objects))
        IN  IF Calls(run("ok").out, "storage.download")
            THEN \E download \in DownloadAnswers : Serve(run(download))
            ELSE Serve(run("ok"))

Share ==
    /\ last = Idle
    /\ \E hdr \in Headers, body \in JobIdBodies :
        LET run(sign, now) ==
                Request("share", hdr, "", body, ReadEnv(sign, "ok", now),
                        POST_share(hdr, body, sign, now, jobs, config.ttlDays))
        IN  IF ~RouteLoads(config.ttlDays)
            THEN Serve(Request("share", hdr, "", body, ReadEnv("ok", "ok", 0),
                               LoadFailure))
            ELSE IF Calls(run("ok", 0).out, "storage.createSignedUrl")
            THEN \E sign \in SignAnswers :
                     IF sign = "ok"
                     THEN \E now \in Clock : Serve(run(sign, now))
                     ELSE Serve(run(sign, 0))
            ELSE Serve(run("ok", 0))

\* the response is delivered and the server waits for the next request
Respond ==
    /\ last # Idle
    /\ last' = Idle
    /\ UNCHANGED <<jobs, sim_metrics, objects, config, served, logs, aux>>

Next == Simulate \/ View \/ Preview \/ Download \/ Share \/ Respond

Spec == Init /\ [][Next]_vars

\* a process started without NEXT_PUBLIC_SHARE_LINK_TTL_DAYS
InitNoTtl ==
    /\ InitStores
    /\ config \in [live : BOOLEAN, ttlDays : {NotConfigured}]
    /\ InitMonitor(DEFAULT_PERFORMANCE_CONFIG, <<>>)
    /\ InitUpload

SpecNoTtl == InitNoTtl /\ [][Next]_vars

(* -------------------------- the error logger --------------------------- *)
\* a submit request with what it leaves in the logger: logError pushes the
\* entry to this.logs, which nothing ever shortens (clearLogs has no caller)
SimulateLogged ==
    /\ Submission
    /\ logs' = logs \o last'.out.logged
    /\ Len(logs') <= MaxLogs

NextLog == SimulateLogged \/ Respond

\* submit requests to one server process and its logger
SpecLog == InitQuiet /\ [][NextLog]_vars

(* ------------------- a client that repeats read requests --------------- *)
\* the response is delivered to a client that keeps it and asks again
Deliver ==
    /\ last # Idle
    /\ prev' = last
    /\ last' = Idle
    /\ UNCHANGED <<jobs, sim_metrics, objects, config, served, logs,
                   monitor, upload, page>>

NextReads == View \/ Preview \/ Download \/ Share \/ Deliver

\* any sequence of read requests against the stored jobs and objects
SpecReads == Init /\ [][NextReads]_vars

(* ------------------------ the retry/timeout policy --------------------- *)
\* the ceiling of getRetryDelay (ms)
MaxRetryDelayMs == 5000

\* the configurations a monitor is constructed with: the defaults, with
\* maxDurationMs and retryAttempts overridden (createPerformanceMonitor)
PerformanceConfigs ==
    {[DEFAULT_PERFORMANCE_CONFIG EXCEPT !.maxDurationMs = m,
                                        !.retryAttempts = n] :
         m \in {5000, 60000}, n \in 0..MaxAttempts}

\* how one invocation of the wrapped operation behaves: it fulfils or
\* rejects dur ms after it was started, or never settles
Behaviours ==
    {[settles |-> TRUE, result |-> r, dur |-> d] :
         r \in {"ok", "fail"}, d \in {1000}}
    \cup {[settles |-> TRUE, result |-> "fail", dur |-> 2900],
          [settles |-> TRUE, result |-> "ok", dur |-> 20000],
          [settles |-> TRUE, result |-> "ok", dur |-> 45000],
          [settles |-> FALSE, result |-> "ok", dur |-> 0]}

\* the behaviour of the first MaxAttempts + 1 invocations
Plans == [1..(MaxAttempts + 1) -> Behaviours]

\* the time between two calls on the monitor
Gaps == {1000, 61000}

\* error.message of the errors executeWithRetry catches
OperationError(k) == [text |-> "operation failed", n |-> k]

TimeoutError(cfg) == [text |-> "Operation timed out after", n |-> cfg.timeoutMs]

BudgetError(cfg) ==
    [text |-> "Operation exceeded maximum duration of", n |-> cfg.maxDurationMs]

\* getElapsedMs()
getElapsedMs == time - startTime

\* isWithinLimits()
isWithinLimits(elapsed, cfg) == elapsed < cfg.maxDurationMs

\* a faulty variant: the loop runs once more than retryAttempts
LoopContinues_OneMore(n, cfg) == n <= cfg.retryAttempts + 1

\* the loop condition attempt <= this.config.retryAttempts
LoopContinues(n, cfg) == n <= cfg.retryAttempts

\* a faulty variant: the projected time of the retry is not looked at
shouldRetry_IgnoresBudget(n, elapsed, cfg) == ~(n >= cfg.retryAttempts)

\* shouldRetry(attempt)
shouldRetry(n, elapsed, cfg) ==
    IF n >= cfg.retryAttempts THEN FALSE
    ELSE elapsed + cfg.retryDelayMs < cfg.maxDurationMs

Pow2(n) == IF n <= 0 THEN 1 ELSE 2 ^ n

Min(a, b) == IF a <= b THEN a ELSE b

\* the whole milliseconds Math.random() * 0.1 * baseDelay can add: none, or
\* just under a tenth of baseDelay
Jitters(n, cfg) ==
    LET baseDelay == cfg.retryDelayMs * Pow2(n - 1)
    IN  IF baseDelay = 0 THEN {0} ELSE {0, (baseDelay - 1) \div 10}

\* getRetryDelay(attempt)
getRetryDelay(n, jitter, cfg) ==
    LET baseDelay == cfg.retryDelayMs * Pow2(n - 1)
    IN  Min(baseDelay + jitter, MaxRetryDelayMs)

\* the error thrown after the loop
AggregateError(cfg, err, elapsed) ==
    [kind |-> "error", value |-> 0, attempts |-> cfg.retryAttempts,
     lastError |-> err, totalTime |-> elapsed]

\* everything outside the monitor
outside ==
    <<jobs, sim_metrics, objects, config, served, last, prev, upload, page,
      logs>>

\* start()
MonitorStart ==
    /\ pc = "idle"
    /\ startTime # time
    /\ startTime' = time
    /\ UNCHANGED <<perfConfig, time, pc, attempt, lastError, timer, plan,
                   calls, outcome, outside>>

\* time passes before executeWithRetry is called
Elapse ==
    /\ pc = "idle"
    /\ time = ConstructedAt
    /\ \E g \in Gaps : time' = time + g
    /\ UNCHANGED <<perfConfig, startTime, pc, attempt, lastError, timer,
                   plan, calls, outcome, outside>>

\* executeWithRetry is called: lastError = null, attempt = 1
Call ==
    /\ pc = "idle"
    /\ pc' = "loop"
    /\ attempt' = 1
    /\ lastError' = {}
    /\ UNCHANGED <<perfConfig, startTime, time, timer, plan, calls, outcome,
                   outside>>

\* the head of the loop and the try block up to the await: the loop ends,
\* or the budget check throws, or operation() is invoked under a timeout
Attempt ==
    /\ pc = "loop"
    /\ IF ~LoopContinues(attempt, perfConfig)
       THEN /\ pc' = "thrown"
            /\ outcome' = AggregateError(perfConfig, lastError, getElapsedMs)
            /\ UNCHANGED <<lastError, timer, calls>>
       ELSE IF ~isWithinLimits(getElapsedMs, perfConfig)
       THEN /\ lastError' = {BudgetError(perfConfig)}
            /\ pc' = "catch"
            /\ UNCHANGED <<timer, calls, outcome>>
       ELSE /\ calls' = Append(calls,
                            [attempt |-> attempt, startedAt |-> time,
                             does |-> plan[Len(calls) + 1],
                             status |-> "running"])
            /\ timer' = time + perfConfig.timeoutMs
            /\ pc' = "await"
            /\ UNCHANGED <<lastError, outcome>>
    /\ UNCHANGED <<perfConfig, startTime, time, attempt, plan, outside>>

\* a faulty variant: whichever promise settles, the operation's result is taken
OperationWins_Always(c, cfg) == c.does.settles

\* Promise.race([operation, timeout]): the operation settles first when it
\* settles before the timer fires
OperationWins(c, cfg) == c.does.settles /\ c.does.dur <= cfg.timeoutMs

\* a faulty variant: the await has no timer and ends only when the
\* operation settles
TimerWins_NoTimer(c, cfg) == c.does.settles /\ c.does.dur >= cfg.timeoutMs

\* the timer of createTimeoutPromise rejects first
TimerWins(c, cfg) == ~c.does.settles \/ c.does.dur >= cfg.timeoutMs

\* the await of createTimeoutPromise(operation()) settles: the result is
\* returned, or the rejection (of the operation or of the timer, which leaves
\* the operation running) is caught and becomes lastError
Race ==
    /\ pc = "await"
    /\ LET k == Len(calls)
           c == calls[k]
       IN  \/ /\ OperationWins(c, perfConfig)
              /\ time' = c.startedAt + c.does.dur
              /\ IF c.does.result = "ok"
                 THEN /\ calls' = [calls EXCEPT ![k].status = "fulfilled"]
                      /\ pc' = "returned"
                      /\ outcome' = [NoOutcome EXCEPT !.kind = "value",
                                                      !.value = k]
                      /\ UNCHANGED lastError
                 ELSE /\ calls' = [calls EXCEPT ![k].status = "rejected"]
                      /\ pc' = "catch"
                      /\ lastError' = {OperationError(k)}
                      /\ UNCHANGED outcome
           \/ /\ TimerWins(c, perfConfig)
              /\ time' = timer
              /\ calls' = [calls EXCEPT ![k].status = "abandoned"]
              /\ pc' = "catch"
              /\ lastError' = {TimeoutError(perfConfig)}
              /\ UNCHANGED outcome
    /\ UNCHANGED <<perfConfig, startTime, attempt, timer, plan, outside>>

\* the catch block: break, or onRetry and a sleep of getRetryDelay(attempt).
\* After the break the aggregate error is thrown
Retry ==
    /\ pc = "catch"
    /\ IF ~shouldRetry(attempt, getElapsedMs, perfConfig)
       THEN /\ pc' = "thrown"
            /\ outcome' = AggregateError(perfConfig, lastError, getElapsedMs)
            /\ UNCHANGED timer
       ELSE /\ \E jitter \in Jitters(attempt, perfConfig) :
                  timer' = time + getRetryDelay(attempt, jitter, perfConfig)
            /\ pc' = "sleep"
            /\ UNCHANGED outcome
    /\ UNCHANGED <<perfConfig, startTime, time, attempt, lastError, plan,
                   calls, outside>>

\* the sleep ends and the loop goes to its next iteration
Backoff ==
    /\ pc = "sleep"
    /\ time' = timer
    /\ attempt' = attempt + 1
    /\ pc' = "loop"
    /\ UNCHANGED <<perfConfig, startTime, lastError, timer, plan, calls,
                   outcome, outside>>

\* a faulty variant: the late result of an abandoned invocation is returned
LateResult_Returned(k) ==
    /\ pc' = IF calls[k].does.result = "ok" THEN "returned" ELSE pc
    /\ outcome' = IF calls[k].does.result = "ok"
                  THEN [NoOutcome EXCEPT !.kind = "value", !.value = k]
                  ELSE outcome
    /\ UNCHANGED <<attempt, lastError>>

\* the promise of the race is settled already: a later settlement of the
\* operation changes nothing in executeWithRetry
LateResult(k) == UNCHANGED <<pc, outcome, attempt, lastError>>

\* the time up to which executeWithRetry is suspended: the end of the await
\* of the race, the end of the sleep, or now
Horizon ==
    IF pc = "await"
    THEN LET c == calls[Len(calls)]
         IN  IF OperationWins(c, perfConfig)
             THEN c.startedAt + c.does.dur ELSE timer
    ELSE IF pc = "sleep" THEN timer ELSE time

\* an invocation that its attempt gave up on settles: at its own time while
\* executeWithRetry runs or is suspended, at any time after it
Abandoned ==
    /\ \E k \in 1..Len(calls) :
          /\ calls[k].status = "abandoned"
          /\ calls[k].does.settles
          /\ \/ calls[k].startedAt + calls[k].does.dur <= Horizon
             \/ pc \in {"returned", "thrown"}
          /\ calls' = [calls EXCEPT ![k].status = "settled late"]
          /\ LateResult(k)
    /\ UNCHANGED <<perfConfig, startTime, time, timer, plan, outside>>

NextRetry ==
    MonitorStart \/ Elapse \/ Call \/ Attempt \/ Race \/ Retry \/ Backoff
    \/ Abandoned

InitRetry ==
    /\ InitStores
    /\ config = [live |-> FALSE, ttlDays |-> [num |-> 1, den |-> 1]]
    /\ \E cfg \in PerformanceConfigs, behaviour \in Plans :
          InitMonitor(cfg, behaviour)
    /\ InitUpload

\* one monitor and one call of executeWithRetry on it
SpecRetry == InitRetry /\ [][NextRetry]_vars

\* the same, where the event loop runs every continuation that is ready:
\* synchronous code runs on, a settled promise resumes its await, and the
\* timers that were set fire
SpecRetryFair ==
    /\ SpecRetry
    /\ WF_vars(Attempt)
    /\ WF_vars(Race)
    /\ WF_vars(Retry)
    /\ WF_vars(Backoff)

(* ------------------------- upload pre-validation ----------------------- *)
UPLOAD_CONSTRAINTS ==
    [person |-> [min |-> 1, max |-> 1], items |-> [min |-> 0, max |-> 3]]

\* sizes in bytes
FILE_CONSTRAINTS ==
    [maxSize |-> 5 * 1024 * 1024, hardMaxSize |-> 8 * 1024 * 1024,
     allowedTypes |-> {"image/jpeg", "image/jpg", "image/png"}]

\* the files a candidate set is made of: a category (the type admits
\* 'person' and 'item'; JSON can carry any other value), a MIME type and a
\* size at, or one byte over, the hard limit
CandidateFiles ==
    [category : {"person", "item", "other"},
     type : {"image/png", "image/gif"},
     size : {8 * 1024 * 1024, 8 * 1024 * 1024 + 1}]

ValidationError(field, code) == [field |-> field, code |-> code]

\* a faulty variant: the size is compared with the soft limit
validateFile_SoftLimit(file) ==
    (IF file.type \notin FILE_CONSTRAINTS.allowedTypes
     THEN <<ValidationError("file", "INVALID_FILE_TYPE")>> ELSE <<>>)
    \o (IF file.size > FILE_CONSTRAINTS.maxSize
        THEN <<ValidationError("file", "FILE_SIZE_EXCEEDED")>> ELSE <<>>)

\* validateFile(file)
validateFile(file) ==
    (IF file.type \notin FILE_CONSTRAINTS.allowedTypes
     THEN <<ValidationError("file", "INVALID_FILE_TYPE")>> ELSE <<>>)
    \o (IF file.size > FILE_CONSTRAINTS.hardMaxSize
        THEN <<ValidationError("file", "FILE_SIZE_EXCEEDED")>> ELSE <<>>)

\* fs.filter((f) => f.category === category).length
CountCategory(fs, category) ==
    Cardinality({i \in 1..Len(fs) : fs[i].category = category})

\* a faulty variant: the number of item files is not limited
validateCategoryConstraints_NoItemLimit(fs) ==
    LET personCount == CountCategory(fs, "person")
    IN  (IF personCount < UPLOAD_CONSTRAINTS.person.min
         THEN <<ValidationError("person", "CATEGORY_LIMIT_EXCEEDED")>>
         ELSE <<>>)
        \o (IF personCount > UPLOAD_CONSTRAINTS.person.max
            THEN <<ValidationError("person", "CATEGORY_LIMIT_EXCEEDED")>>
            ELSE <<>>)

\* validateCategoryConstraints(files)
validateCategoryConstraints(fs) ==
    LET personCount == CountCategory(fs, "person")
        itemCount == CountCategory(fs, "item")
    IN  (IF personCount < UPLOAD_CONSTRAINTS.person.min
         THEN <<ValidationError("person", "CATEGORY_LIMIT_EXCEEDED")>>
         ELSE <<>>)
        \o (IF personCount > UPLOAD_CONSTRAINTS.person.max
            THEN <<ValidationError("person", "CATEGORY_LIMIT_EXCEEDED")>>
            ELSE <<>>)
        \o (IF itemCount > UPLOAD_CONSTRAINTS.items.max
            THEN <<ValidationError("items", "CATEGORY_LIMIT_EXCEEDED")>>
            ELSE <<>>)

\* the loop of validateUpload: the errors of each file, in order
RECURSIVE FileErrors(_)
FileErrors(fs) ==
    IF fs = <<>> THEN <<>>
    ELSE validateFile(Head(fs)) \o FileErrors(Tail(fs))

\* validateUpload(files)
validateUpload(fs) ==
    LET errors == FileErrors(fs) \o validateCategoryConstraints(fs)
    IN  [isValid |-> Len(errors) = 0, errors |-> errors]

\* a file joins the candidate set
Select ==
    /\ validation = {}
    /\ reply = {}
    /\ Len(files) < MaxFiles
    /\ \E f \in CandidateFiles : files' = Append(files, f)
    /\ UNCHANGED <<validation, reply, jobs, sim_metrics, objects, config,
                   served, last, prev, monitor, page, logs, lastAdd>>

\* validateUpload runs on the candidate set
Validate ==
    /\ validation = {}
    /\ reply = {}
    /\ validation' = {validateUpload(files)}
    /\ UNCHANGED <<files, reply, jobs, sim_metrics, objects, config, served,
                   last, prev, monitor, page, logs, lastAdd>>

\* supabaseAdmin.auth.admin.getUserById(userId): found for a known user
getUserById(userId) == userId \in Users

\* `${userId}/${uuidv4()}.${name.split('.').pop()}` for the i-th file; the
\* uuid is new for every file, the extension is the file's own
AssignedPath(userId, i) == <<userId, "/", "f" \o ToString(i), ".", "ext">>

UploadReply(status, success, error) ==
    [status |-> status, success |-> success, error |-> error, errors |-> <<>>,
     personPath |-> {}, itemPaths |-> <<>>]

\* fileMetadata.filter((f) => f.category === category), as positions
Positions(fs, category) == {i \in 1..Len(fs) : fs[i].category = category}

\* the positions of a set in increasing order
RECURSIVE Ascending(_)
Ascending(S) ==
    IF S = {} THEN <<>>
    ELSE LET m == CHOOSE x \in S : \A y \in S : x <= y
         IN  <<m>> \o Ascending(S \ {m})

\* POST api/fit/upload. body: {} when request.json() throws, else
\* {[files, userId]}; files is {} when it is missing or no array.
\* The Authorization header is not read
POST_upload(hdr, body) ==
    IF body = {}
    THEN UploadReply(500, "false", "Internal server error")
    ELSE
    LET b == CHOOSE x \in body : TRUE IN
    IF b.files = {}
    THEN UploadReply(400, "false", "Invalid files data")
    ELSE IF b.userId = ""
    THEN UploadReply(400, "false", "User ID is required")
    ELSE
    LET fileMetadata == CHOOSE fs \in b.files : TRUE
        v == validateUpload(fileMetadata)
    IN
    IF ~v.isValid
    THEN [UploadReply(400, "false", "") EXCEPT !.errors = v.errors]
    ELSE IF ~getUserById(b.userId)
    THEN UploadReply(404, "false", "User not found")
    ELSE
    LET persons == Ascending(Positions(fileMetadata, "person"))
        items == Ascending(Positions(fileMetadata, "item"))
    IN
    IF persons = <<>>
    THEN UploadReply(400, "false", "Person file is required")
    ELSE [UploadReply(200, "true", "") EXCEPT
             !.personPath = {AssignedPath(b.userId, persons[1])},
             !.itemPaths = [k \in 1..Len(items) |->
                               AssignedPath(b.userId, items[k])]]

\* the credentials a request to the endpoint carries
UploadHeaders ==
    {[scheme |-> "none", token |-> ""], [scheme |-> "Bearer", token |-> "t1"]}

\* the userId of the JSON body: missing, a user, no user
UploadUserIds == {"", "u2", "ghost"}

\* one request to POST api/fit/upload with the candidate set as its files
Prevalidate ==
    /\ reply = {}
    /\ validation = {}
    /\ \E hdr \in UploadHeaders, userId \in UploadUserIds :
          LET body == {[files |-> {files}, userId |-> userId]}
          IN  reply' = {[hdr |-> hdr, body |-> body,
                         resp |-> POST_upload(hdr, body)]}
    /\ UNCHANGED <<files, validation, jobs, sim_metrics, objects, config,
                   served, last, prev, monitor, page, logs, lastAdd>>

\* a request whose body is no JSON, or has no files array
PrevalidateMalformed ==
    /\ reply = {}
    /\ validation = {}
    /\ files = <<>>
    /\ \E hdr \in UploadHeaders,
          body \in {{}, {[files |-> {}, userId |-> "u2"]}} :
          reply' = {[hdr |-> hdr, body |-> body,
                     resp |-> POST_upload(hdr, body)]}
    /\ UNCHANGED <<files, validation, jobs, sim_metrics, objects, config,
                   served, last, prev, monitor, page, logs, lastAdd>>

NextUpload == Select \/ Validate \/ Prevalidate \/ PrevalidateMalformed

\* candidate sets of up to MaxFiles files and their validation
SpecUpload == InitQuiet /\ [][NextUpload]_vars

(* ------------------------- adding files one by one -------------------- *)
\* determineCategory(existingFiles)
determineCategory(existingFiles) ==
    IF CountCategory(existingFiles, "person") = 0 THEN "person" ELSE "item"

\* canAddFile(existingFiles, newFile)
canAddFile(existingFiles, newFile) ==
    LET fileErrors == validateFile(newFile) IN
    IF Len(fileErrors) > 0
    THEN [canAdd |-> FALSE, errors |-> fileErrors]
    ELSE
    LET category == determineCategory(existingFiles)
        newFileMetadata ==
            [category |-> category, type |-> newFile.type,
             size |-> newFile.size]
        testFiles == Append(existingFiles, newFileMetadata)
        categoryErrors == validateCategoryConstraints(testFiles)
    IN  IF Len(categoryErrors) > 0
        THEN [canAdd |-> FALSE, errors |-> categoryErrors]
        ELSE [canAdd |-> TRUE, errors |-> <<>>]

\* the files offered for addition: JPEG, PNG or GIF, above the soft limit,
\* at the hard limit or one byte above it
NewFiles ==
    [type : {"image/jpeg", "image/png", "image/gif"},
     size : {5 * 1024 * 1024 + 1, 8 * 1024 * 1024, 8 * 1024 * 1024 + 1}]

\* a caller that asks canAddFile and adds the file, with the category of
\* determineCategory, only when the answer is canAdd
AddFile ==
    /\ Len(files) <= MaxFiles
    /\ \E newFile \in NewFiles :
          LET answer == canAddFile(files, newFile)
          IN  /\ lastAdd' = {[file |-> newFile, canAdd |-> answer.canAdd,
                               errors |-> answer.errors]}
              /\ files' =
                    IF answer.canAdd
                    THEN Append(files,
                                [category |-> determineCategory(files),
                                 type |-> newFile.type, size |-> newFile.size])
                    ELSE files
    /\ UNCHANGED <<validation, reply, jobs, sim_metrics, objects, config,
                   served, last, prev, monitor, page, logs>>

NextAdd == AddFile

\* candidate sets built from the empty set through canAddFile
SpecAdd == InitQuiet /\ [][NextAdd]_vars

(* ---------------------------- the upload page ------------------------- *)
\* the user the page is shown to (useAuth)
PageUser == "u1"

\* the files a user picks in a file input: a PNG, a GIF or a text file, at
\* the size limit or one byte above it
PickedFiles ==
    [type : {"image/png", "image/gif", "text/plain"},
     size : {8 * 1024 * 1024, 8 * 1024 * 1024 + 1}]

\* what one change event of the item input carries (multiple)
Selections ==
    {<<>>} \cup {<<f>> : f \in PickedFiles}
    \cup {<<f, g>> : f \in {x \in PickedFiles : x.size = 8 * 1024 * 1024},
                     g \in PickedFiles}

\* the page's own check of a picked file: file.type.startsWith('image/')
\* and file.size <= 8 * 1024 * 1024
PageCheck(file, field) ==
    IF ~StartsWith(file.type, "image/")
    THEN <<ValidationError(field, "INVALID_FILE_TYPE")>>
    ELSE IF file.size > 8 * 1024 * 1024
    THEN <<ValidationError(field, "FILE_SIZE_EXCEEDED")>>
    ELSE <<>>

\* the FileUploadMetadata the page makes of a picked file
Metadata(file, category) ==
    [category |-> category, type |-> file.type, size |-> file.size]

\* everything that is not the page's
offPage ==
    <<jobs, sim_metrics, objects, config, served, last, prev, monitor,
      upload, logs>>

handlePersonFileSelect ==
    /\ ~navigated
    /\ \E file \in PickedFiles :
          LET e == PageCheck(file, "person")
          IN  /\ pageErrors' = e
              /\ personFile' = IF e = <<>> THEN {Metadata(file, "person")}
                                ELSE personFile
    /\ UNCHANGED <<itemFiles, originals, navigated, offPage>>

\* the loop over the selection returns at the first file that fails
handleItemFileSelect ==
    /\ ~navigated
    /\ \E sel \in Selections :
          LET bad == {i \in 1..Len(sel) : PageCheck(sel[i], "items") # <<>>}
              first == CHOOSE i \in bad : \A j \in bad : i <= j
          IN  IF Len(itemFiles) + Len(sel) > 3
              THEN /\ pageErrors' = <<ValidationError("items", "TOO_MANY_ITEMS")>>
                   /\ UNCHANGED itemFiles
              ELSE IF bad # {}
              THEN /\ pageErrors' = PageCheck(sel[first], "items")
                   /\ UNCHANGED itemFiles
              ELSE /\ pageErrors' = <<>>
                   /\ itemFiles' = itemFiles \o
                          [i \in 1..Len(sel) |-> Metadata(sel[i], "item")]
    /\ UNCHANGED <<personFile, originals, navigated, offPage>>

removePersonFile ==
    /\ ~navigated
    /\ personFile # {}
    /\ personFile' = {}
    /\ pageErrors' = <<>>
    /\ UNCHANGED <<itemFiles, originals, navigated, offPage>>

\* prev.filter((f) => f.id !== id): the ids are distinct, so the one file
\* at the position of the id goes
removeItemFile ==
    /\ ~navigated
    /\ \E i \in 1..Len(itemFiles) :
          itemFiles' = SubSeq(itemFiles, 1, i - 1)
                       \o SubSeq(itemFiles, i + 1, Len(itemFiles))
    /\ pageErrors' = <<>>
    /\ UNCHANGED <<personFile, originals, navigated, offPage>>

\* what the storage service answers to a refused upload, as the page
\* classifies its message
StorageRefusals == {"PERMISSION_DENIED", "UPLOAD_ERROR"}

\* `${user.id}/${uuidv4()}.${ext}`: a new name for every upload
OriginalPath(n) == <<PageUser, "/", "o" \o ToString(n), ".", "ext">>

\* uploadFiles: the person file, then the item files, go to 'fit-originals'
\* one by one; the first refused upload ends the run and leaves the earlier
\* ones stored
uploadFiles ==
    /\ ~navigated
    /\ IF personFile = {}
       THEN /\ pageErrors' = <<ValidationError("person", "PERSON_REQUIRED")>>
            /\ UNCHANGED <<originals, navigated>>
       ELSE LET list == <<CHOOSE f \in personFile : TRUE>> \o itemFiles
                written(k) ==
                    [i \in 1..k |->
                        [path |-> OriginalPath(Len(originals) + i),
                         file |-> list[i]]]
            IN  /\ Len(originals) + Len(list) <= MaxOriginals
                /\ \E k \in 0..Len(list) :
                      /\ originals' = originals \o written(k)
                      /\ IF k = Len(list)
                         THEN /\ pageErrors' = <<>>
                              /\ navigated' = TRUE
                         ELSE /\ \E code \in StorageRefusals :
                                    pageErrors' =
                                        <<ValidationError("upload", code)>>
                              /\ UNCHANGED navigated
    /\ UNCHANGED <<personFile, itemFiles, offPage>>

NextPage ==
    \/ handlePersonFileSelect
    \/ handleItemFileSelect
    \/ removePersonFile
    \/ removeItemFile
    \/ uploadFiles

\* the upload page from its first render to the move to /simulation
SpecPage == InitQuiet /\ [][NextPage]_vars

(* ------------------------------ the claims ----------------------------- *)
\* The request in flight, as the claims speak of it. These definitions do
\* not use the handlers' own checks.
ReadOps == {"view", "preview", "download", "share"}

\* the caller presents the bearer token of user u
CallerIs(u) ==
    last.hdr = [scheme |-> "Bearer", token |-> IF u = "u1" THEN "t1" ELSE "t2"]

Identified == \E u \in Users : CallerIs(u)

\* the job id the request names (none when the body cannot be parsed)
Asked == IF last.op \in {"view", "download"} THEN {last.jobId} ELSE last.body

\* the path lies in u's namespace: it begins with u's id and a slash
InNamespace(path, u) == Len(path) >= 2 /\ path[1] = u /\ path[2] = "/"

Count(seq, x) == Cardinality({i \in 1..Len(seq) : seq[i] = x})

StorageOps ==
    {"storage.upload", "storage.list", "storage.createSignedUrl",
     "storage.download"}

NoStorageAccess == \A i \in 1..Len(last.out.ops) : last.out.ops[i] \notin StorageOps

\* the submit request of u names a path outside u's namespace
OwnershipViolated(u) ==
    /\ last.op = "simulate"
    /\ CallerIs(u)
    /\ \E b \in last.body :
        \/ ~InNamespace(b.personPath, u)
        \/ \E i \in 1..Len(b.itemPaths) : ~InNamespace(b.itemPaths[i], u)

C1_Response ==
    \A u \in Users :
        OwnershipViolated(u) =>
            /\ last.out.resp.status = 403
            /\ Len(last.out.metricsInserts) = 1
            /\ last.out.metricsInserts[1].row.status = "denied"
            /\ last.out.metricsInserts[1].row.user_id = u
            /\ last.out.jobInserts = <<>>
            /\ last.out.uploads = <<>>
            /\ Count(last.out.ops, "gemini.generateImage") = 0
            /\ Count(last.out.ops, "jobs.insert") = 0
            /\ NoStorageAccess

C1_Stores ==
    (\E u \in Users : OwnershipViolated(u)') =>
        /\ jobs' = jobs
        /\ objects' = objects
        /\ Len(sim_metrics') <= Len(sim_metrics) + 1

\* C1: a submit request of an authenticated user u whose personPath is
\* missing or empty, or whose personPath or some itemPaths element does not
\* start with "u/", is answered 403, issues exactly one metrics insert, with
\* status 'denied', inserts no Job row, does not call the generation backend
\* and writes nothing to object storage.
C1_OwnershipDenied == []C1_Response /\ [][C1_Stores]_vars

\* scenario B: u1 submits the subject path u2/p.png
C1_Witness ==
    /\ OwnershipViolated("u1")
    /\ \E b \in last.body : b.personPath = <<"u2", "/", "p.png">>
    /\ last.out.resp.status = 403
    /\ Len(sim_metrics) = 1
    /\ sim_metrics[1].status = "denied"

\* the request names a job that is stored and owned by someone else
ForeignJob ==
    /\ last.op \in ReadOps
    /\ \E J \in jobs, B \in Users :
        CallerIs(B) /\ J.user_id # B /\ Asked = {J.id}

NoArtifact ==
    /\ last.out.resp.job = {}
    /\ last.out.resp.bytes = {}
    /\ last.out.resp.signedUrl = {}
    /\ NoStorageAccess

\* C2: a read request (view, preview bytes, download, share) for a stored
\* job by an authenticated user other than its owner is answered 403, never
\* 404, and carries neither the job fields, nor bytes, nor a signed URL.
C2_ForeignJobForbidden ==
    ForeignJob => last.out.resp.status = 403 /\ NoArtifact

C2_Witness ==
    /\ ForeignJob
    /\ last.op = "download"
    /\ CallerIs("u1")
    /\ Asked = {"j1"}
    /\ last.out.resp.status = 403

\* an identified caller names a job id that no row of the store has
UnknownJob ==
    /\ last.op \in ReadOps
    /\ Identified
    /\ \E id \in Asked : id # "" /\ \A J \in jobs : J.id # id

\* C3: a read request of any identified caller for a job id that is not in
\* the job store is answered 404.
C3_UnknownJobNotFound ==
    UnknownJob => last.out.resp.status = 404 /\ NoArtifact

C3_Witness ==
    /\ UnknownJob
    /\ last.op = "share"
    /\ Asked = {"zz"}
    /\ CallerIs("u2")
    /\ last.out.resp.status = 404

\* the body of the 401 answer, which depends on the header alone
UnauthenticatedAnswer ==
    Resp(401, "none",
         IF last.op # "download" /\ last.hdr.scheme # "Bearer"
         THEN "Missing or invalid authorization header"
         ELSE "Invalid or expired token")

\* C4: on every endpoint a request without a header, with a header of
\* another scheme, or with a token that resolves to no user is answered 401
\* before any job lookup, backend call, storage access, Job insert or
\* metrics insert; the answer is the same for every requested job id and
\* every state of the stores.
C4_UnauthenticatedFirst ==
    (last.op # "none" /\ ~Identified) =>
        /\ last.out.resp = UnauthenticatedAnswer
        /\ \A i \in 1..Len(last.out.ops) : last.out.ops[i] = "auth.getUser"
        /\ last.out.jobInserts = <<>>
        /\ last.out.metricsInserts = <<>>
        /\ last.out.uploads = <<>>

\* an unauthenticated request for a job that exists
C4_Witness ==
    /\ last.op = "view"
    /\ last.hdr = [scheme |-> "Bearer", token |-> "tx"]
    /\ Asked = {"j1"}
    /\ last.out.resp.status = 401
    /\ last.out.ops = <<"auth.getUser">>

Submitted == last.op = "simulate"

\* C5 as stated: every invocation of the submit handler makes at most one
\* object-storage write, at most one Job insert and exactly one metrics
\* insert, whatever its outcome (401 included).
C5_ExactlyOneMetricsAlways ==
    Submitted =>
        /\ Count(last.out.ops, "storage.upload") <= 1
        /\ Count(last.out.ops, "jobs.insert") <= 1
        /\ Count(last.out.ops, "sim_metrics.insert") = 1

C5_Effects ==
    Submitted =>
        /\ Count(last.out.ops, "storage.upload") <= 1
        /\ Len(last.out.uploads) = Count(last.out.ops, "storage.upload")
        /\ Count(last.out.ops, "jobs.insert") <= 1
        /\ Len(last.out.jobInserts) = Count(last.out.ops, "jobs.insert")
        /\ Len(last.out.metricsInserts)
               = Count(last.out.ops, "sim_metrics.insert")
        /\ Count(last.out.ops, "sim_metrics.insert")
               = IF Identified THEN 1 ELSE 0

C5_Stores ==
    Submitted' =>
        /\ Cardinality(objects' \ objects) <= 1
        /\ Cardinality(jobs' \ jobs) <= 1
        /\ Len(sim_metrics') <= Len(sim_metrics) + 1
        /\ objects \subseteq objects'
        /\ jobs \subseteq jobs'
        /\ SubSeq(sim_metrics', 1, Len(sim_metrics)) = sim_metrics

\* C5 (amended): every invocation of the submit handler makes at most one
\* object-storage write and at most one Job insert; it makes exactly one
\* metrics insert when the bearer token resolved to a user and none when
\* the request is answered 401.
C5_SideEffects == []C5_Effects /\ [][C5_Stores]_vars

\* a successful submit: one upload, one Job insert, one metrics insert
C5_Witness ==
    /\ Submitted
    /\ last.out.resp.status = 200
    /\ Count(last.out.ops, "storage.upload") = 1
    /\ Count(last.out.ops, "jobs.insert") = 1
    /\ Count(last.out.ops, "sim_metrics.insert") = 1
    /\ Len(sim_metrics) = 1
    /\ Cardinality(jobs) = Cardinality(SeedJobs) + 1

\* the submit request of u passed the ownership check
OwnershipHolds(u) ==
    /\ Submitted
    /\ CallerIs(u)
    /\ \E b \in last.body :
        /\ InNamespace(b.personPath, u)
        /\ \A i \in 1..Len(b.itemPaths) : InNamespace(b.itemPaths[i], u)

\* what went wrong after the ownership check, as the environment did it
GenerationFailed == last.env.fault = "gen_fail"

UploadFailed ==
    last.env.fault = "upload"
    \/ (Len(last.out.uploads) = 1 /\ ~last.out.uploads[1].stored)

VerificationFailed == last.env.fault \in {"list_error", "list_empty"}

SigningFailed == last.env.fault \in {"sign_error", "sign_nodata"}

C6_Case ==
    /\ \E u \in Users : OwnershipHolds(u)
    /\ GenerationFailed \/ UploadFailed \/ VerificationFailed \/ SigningFailed

C6_Response ==
    C6_Case =>
        /\ last.out.resp.status = 500
        /\ last.out.resp.success = "false"
        /\ Len(last.out.metricsInserts) = 1
        /\ last.out.metricsInserts[1].row.status = "error"
        /\ last.out.metricsInserts[1].row.job_id = {last.jobId}
        /\ last.out.ops[Len(last.out.ops)] = "sim_metrics.insert"
        /\ last.out.jobInserts = <<>>
        /\ Count(last.out.ops, "jobs.insert") = 0
        /\ GenerationFailed => (last.out.uploads = <<>> /\ NoStorageAccess)

C6_Stores ==
    C6_Case' =>
        /\ jobs' = jobs
        /\ GenerationFailed' => objects' = objects

\* C6: after the ownership check, a reported generation failure, a failed
\* artifact upload, a failed existence check or a failed signed-URL minting
\* is answered 500, with one metrics insert of status 'error' as the last
\* call before the response and no Job insert; a generation failure writes
\* nothing to object storage.
C6_FailureRecorded == []C6_Response /\ [][C6_Stores]_vars

\* scenario C: the upload fails
C6_Witness ==
    /\ OwnershipHolds("u1")
    /\ last.env.fault = "upload"
    /\ last.out.resp.status = 500
    /\ last.out.resp.error = "Failed to store preview image"
    /\ Len(sim_metrics) = 1
    /\ sim_metrics[1].status = "error"
    /\ jobs = SeedJobs

Succeeded == Submitted /\ last.out.resp.success = "true"

\* C7: a successful submit issues its Job insert with status 'completed'
\* exactly when the generation client is in live mode and 'completed_stub'
\* otherwise, and its metrics insert carries the same status, job id, owner
\* id and duration as the Job row.
C7_StatusPreserved ==
    Succeeded =>
        /\ Len(last.out.jobInserts) = 1
        /\ Len(last.out.metricsInserts) = 1
        /\ LET row == last.out.jobInserts[1].row
               met == last.out.metricsInserts[1].row
           IN  /\ (row.status = "completed") <=> config.live
               /\ (row.status = "completed_stub") <=> ~config.live
               /\ met.status = row.status
               /\ met.job_id = {row.id}
               /\ met.user_id = row.user_id
               /\ met.duration_ms = row.duration_ms
               /\ last.out.jobInserts[1].stored => row \in jobs
               /\ last.out.metricsInserts[1].stored
                      => sim_metrics[Len(sim_metrics)] = met

\* scenario A: u1/p.png, no items, stub mode
C7_Witness ==
    /\ Succeeded
    /\ ~config.live
    /\ \E J \in jobs :
        /\ J.id = last.jobId
        /\ J.status = "completed_stub"
        /\ J.person_path = <<"u1", "/", "p.png">>
        /\ J.item_paths = <<>>
    /\ Len(sim_metrics) = 1
    /\ sim_metrics[1].status = "completed_stub"

\* generation, upload, verification and minting succeeded and the Job
\* insert was refused
JobInsertRefused ==
    /\ Submitted
    /\ Len(last.out.jobInserts) = 1
    /\ ~last.out.jobInserts[1].stored

\* C8: when everything up to the signed URL succeeds and the Job insert
\* fails, the submit handler still issues the success metrics insert and
\* answers success:true with the job id and the signed URL.
C8_JobInsertFailureSwallowed ==
    JobInsertRefused =>
        /\ last.out.resp.status = 200
        /\ last.out.resp.success = "true"
        /\ last.out.resp.jobId = {last.jobId}
        /\ last.out.resp.signedUrl # {}
        /\ Len(last.out.metricsInserts) = 1
        /\ last.out.metricsInserts[1].row.status
               \in {"completed", "completed_stub"}
        /\ last.out.jobInserts[1].row \notin jobs

C8_Witness ==
    /\ JobInsertRefused
    /\ last.env.fault = "job_insert"
    /\ last.out.resp.success = "true"
    /\ Len(sim_metrics) = 1
    /\ jobs = SeedJobs

\* the caller owns the job asked for, and the job has no preview_path
OwnJobWithoutPreview ==
    /\ last.op \in ReadOps
    /\ \E J \in jobs, u \in Users :
        CallerIs(u) /\ J.user_id = u /\ Asked = {J.id} /\ J.preview_path = <<>>

\* C9 as stated: every call shape answers 404 for the caller's own job
\* without a preview_path, and returns no success body.
C9_AllShapesNotFound ==
    OwnJobWithoutPreview =>
        last.out.resp.status = 404 /\ last.out.resp.success # "true"

\* C9 (amended): for the caller's own job without a preview_path, preview
\* bytes, download and share answer 404 and carry nothing; view answers 200
\* success:true with the job fields and no signed URL and no expiry. No
\* shape calls the storage service.
C9_NoPreview ==
    OwnJobWithoutPreview =>
        /\ NoStorageAccess
        /\ last.out.resp.signedUrl = {}
        /\ last.out.resp.expiresAt = {}
        /\ last.out.resp.bytes = {}
        /\ IF last.op = "view"
           THEN /\ last.out.resp.status = 200
                /\ last.out.resp.success = "true"
                /\ \E J \in jobs : last.out.resp.job = {J} /\ Asked = {J.id}
           ELSE /\ last.out.resp.status = 404
                /\ last.out.resp.success # "true"
                /\ last.out.resp.job = {}

C9_Witness ==
    /\ OwnJobWithoutPreview
    /\ last.op = "share"
    /\ Asked = {"j0"}
    /\ last.out.resp.status = 404
    /\ last.out.resp.error = "No preview available for this job"

\* the owner's request reached createSignedUrl and the service failed
MintingFailed ==
    /\ last.op \in {"view", "share"}
    /\ Identified
    /\ Count(last.out.ops, "storage.createSignedUrl") >= 1
    /\ last.env.fault # "ok"

\* C10 as stated: in view and in share a minting failure is answered with
\* a 500-class status, and minting is attempted exactly once.
C10_AlwaysSurfaced ==
    MintingFailed =>
        /\ last.out.resp.status >= 500
        /\ Count(last.out.ops, "storage.createSignedUrl") = 1

\* C10 (amended): view and share attempt minting at most once per request,
\* exactly once for the owner's job with a preview_path; a minting failure
\* is answered 500 by share, while view logs it and answers 200
\* success:true with the job fields and neither signed URL nor expiry.
C10_MintingOnce ==
    /\ last.op \in {"view", "share"} =>
           Count(last.out.ops, "storage.createSignedUrl") <= 1
    /\ (/\ last.op \in {"view", "share"}
        /\ \E J \in jobs, u \in Users :
              CallerIs(u) /\ J.user_id = u /\ Asked = {J.id}
                 /\ J.preview_path # <<>>)
          => Count(last.out.ops, "storage.createSignedUrl") = 1
    /\ MintingFailed =>
          /\ last.out.resp.signedUrl = {}
          /\ last.out.resp.expiresAt = {}
          /\ IF last.op = "share"
             THEN last.out.resp.status = 500 /\ last.out.resp.success = "false"
             ELSE /\ last.out.resp.status = 200
                  /\ last.out.resp.success = "true"
                  /\ last.out.resp.job # {}

C10_Witness ==
    /\ MintingFailed
    /\ last.op = "share"
    /\ last.env.fault = "error"
    /\ Asked = {"j1"}
    /\ last.out.resp.status = 500

\* the lifetime in seconds that ttlDays = num/den days stands for: the whole
\* seconds of the period, and one minute when that is less
Lifetime(d) ==
    LET seconds == (d.num * 86400) \div d.den
    IN  IF seconds < 60 THEN 60 ELSE seconds

\* C11: for the configured ttlDays = d, every signed URL that submit, view
\* or share hands out was minted with the lifetime max(60, floor(d*86400))
\* seconds, which is at least 60, and the expiresAt that view and share
\* report is the clock value read at issuance plus that many seconds.
C11_SignedUrlLifetime ==
    last.op \in {"simulate", "view", "share"} =>
        /\ \A url \in last.out.resp.signedUrl :
              /\ url.expiresIn = Lifetime(config.ttlDays)
              /\ url.expiresIn >= 60
        /\ last.out.resp.expiresAt # {} => last.out.resp.signedUrl # {}
        /\ (last.op # "simulate" /\ last.out.resp.signedUrl # {}) =>
              last.out.resp.expiresAt
                  = {last.env.now + 1000 * Lifetime(config.ttlDays)}

\* ttlDays = '0.001' (86.4 s): the owner views j1 at clock value 1
C11_Witness ==
    /\ last.op = "view"
    /\ CallerIs("u2")
    /\ Asked = {"j1"}
    /\ config.ttlDays = [num |-> 1, den |-> 1000]
    /\ last.env.now = 1
    /\ \E url \in last.out.resp.signedUrl : url.expiresIn = 86
    /\ last.out.resp.expiresAt = {86001}

\* request r is a read request of the owner of J for J, which has an artifact
OwnerReads(r, J) ==
    /\ r.op \in ReadOps
    /\ J.preview_path # <<>>
    /\ r.hdr = [scheme |-> "Bearer",
                token |-> IF J.user_id = "u1" THEN "t1" ELSE "t2"]
    /\ (IF r.op \in {"view", "download"} THEN {r.jobId} ELSE r.body) = {J.id}

\* the owner asks for J again, after an earlier answer for J
Reinvoked(J) == J \in jobs /\ OwnerReads(prev, J) /\ OwnerReads(last, J)

C12_Fresh ==
    \A J \in jobs :
        OwnerReads(last, J) =>
            /\ last.op \in {"view", "share"} =>
                  /\ Count(last.out.ops, "storage.createSignedUrl") = 1
                  /\ last.out.resp.signedUrl # {} => last.env.fault = "ok"
                  /\ \A url \in last.out.resp.signedUrl :
                        url.path = J.preview_path
            /\ last.op \in {"preview", "download"} =>
                  /\ Count(last.out.ops, "storage.download") = 1
                  /\ \A b \in last.out.resp.bytes :
                        [path |-> J.preview_path, bytes |-> b] \in objects
            /\ OwnerReads(prev, J) =>
                  /\ \A a \in prev.out.resp.signedUrl,
                        b \in last.out.resp.signedUrl : a.path = b.path
                  /\ \A b1 \in prev.out.resp.bytes,
                        b2 \in last.out.resp.bytes : b1 = b2

C12_Frame ==
    /\ jobs' = jobs
    /\ sim_metrics' = sim_metrics
    /\ objects' = objects

\* C12: no read request (view, preview bytes, download, share) changes the
\* job store, the metrics log or the stored objects; every request of the
\* owner for a job with an artifact, a repeated one included, calls the
\* storage service once (a signed URL is returned only when that call
\* succeeded), and the URL and the bytes are those of the job's
\* preview_path, the same on every request.
C12_ReadsAreReadOnly == []C12_Fresh /\ [][C12_Frame]_vars

\* u2 shares j1 twice and is given a URL both times
C12_Witness ==
    /\ \E J \in jobs : J.id = "j1" /\ Reinvoked(J)
    /\ prev.op = "share"
    /\ last.op = "share"
    /\ prev.out.resp.signedUrl # {}
    /\ last.out.resp.signedUrl # {}
    /\ Count(last.out.ops, "storage.createSignedUrl") = 1
    /\ prev.env.now # last.env.now
    /\ prev.out.resp.expiresAt # last.out.resp.expiresAt

\* executeWithRetry has returned or thrown
Settled == pc \in {"returned", "thrown"}

\* start() was called and executeWithRetry right after it
CalledAfterStart == pc # "idle" /\ startTime >= ConstructedAt

\* the k-th invocation of the operation would reject / fulfil in time
WouldFail(k) == plan[k].settles /\ plan[k].result = "fail"

WouldSucceed(k) ==
    plan[k].settles /\ plan[k].result = "ok"
        /\ plan[k].dur < perfConfig.timeoutMs

\* C13: executeWithRetry invokes the operation at most retryAttempts times
\* and returns only the result of one of these invocations that fulfilled;
\* with retryAttempts = 2 and an operation that fails twice and would
\* succeed the third time it does not return and makes no third invocation.
C13_AtMostRetryAttempts ==
    /\ Len(calls) <= perfConfig.retryAttempts
    /\ pc = "returned" =>
          /\ outcome.kind = "value"
          /\ outcome.value \in 1..Len(calls)
          /\ outcome.value <= perfConfig.retryAttempts
          /\ calls[outcome.value].status = "fulfilled"
          /\ WouldSucceed(outcome.value)
    /\ (/\ perfConfig.retryAttempts = 2
        /\ WouldFail(1) /\ WouldFail(2) /\ WouldSucceed(3))
          => /\ pc # "returned"
             /\ Len(calls) <= 2
             /\ Settled => outcome.kind = "error"

\* fails twice then succeeds, retryAttempts = 2: thrown after two invocations
C13_Witness ==
    /\ perfConfig.retryAttempts = 2
    /\ WouldFail(1) /\ WouldFail(2) /\ WouldSucceed(3)
    /\ CalledAfterStart
    /\ pc = "thrown"
    /\ Len(calls) = 2
    /\ calls[1].status = "rejected"
    /\ calls[2].status = "rejected"
    /\ outcome.kind = "error"

\* the candidate set, as the claims count it
FilesOfCategory(c) == {i \in 1..Len(files) : files[i].category = c}

WrongType ==
    {i \in 1..Len(files) :
        files[i].type \notin {"image/jpeg", "image/jpg", "image/png"}}

\* over 8 MiB
TooLarge == {i \in 1..Len(files) : files[i].size > 8388608}

Acceptable ==
    /\ Cardinality(FilesOfCategory("person")) = 1
    /\ Cardinality(FilesOfCategory("item")) \in 0..3
    /\ WrongType = {}
    /\ TooLarge = {}

\* the rules the candidate set violates, one per file and file rule and
\* one per category rule
Violations ==
    Cardinality(WrongType) + Cardinality(TooLarge)
    + (IF Cardinality(FilesOfCategory("person")) < 1 THEN 1 ELSE 0)
    + (IF Cardinality(FilesOfCategory("person")) > 1 THEN 1 ELSE 0)
    + (IF Cardinality(FilesOfCategory("item")) > 3 THEN 1 ELSE 0)

\* C14: validateUpload returns isValid = true exactly when the candidate
\* set has one 'person' file, at most three 'item' files, and every file
\* has an allowed MIME type and at most 8 MiB; otherwise isValid is false
\* and errors is non-empty with one entry per violated rule: field 'person'
\* and code CATEGORY_LIMIT_EXCEEDED for more than one person, field
\* 'items' for more than three items.
C14_AllOrNothing ==
    \A v \in validation :
        /\ v.isValid <=> Acceptable
        /\ v.isValid <=> v.errors = <<>>
        /\ Len(v.errors) = Violations
        /\ Cardinality(FilesOfCategory("person")) > 1 =>
              \E i \in 1..Len(v.errors) :
                  v.errors[i] = [field |-> "person",
                                 code |-> "CATEGORY_LIMIT_EXCEEDED"]
        /\ Cardinality(FilesOfCategory("item")) > 3 =>
              \E i \in 1..Len(v.errors) : v.errors[i].field = "items"
        /\ Cardinality({i \in 1..Len(v.errors) :
                           v.errors[i].code = "INVALID_FILE_TYPE"})
               = Cardinality(WrongType)
        /\ Cardinality({i \in 1..Len(v.errors) :
                           v.errors[i].code = "FILE_SIZE_EXCEEDED"})
               = Cardinality(TooLarge)

\* two persons and one item, all well-formed: one error, on 'person'
C14_Witness ==
    /\ Len(files) = 3
    /\ Cardinality(FilesOfCategory("person")) = 2
    /\ Cardinality(FilesOfCategory("item")) = 1
    /\ WrongType = {} /\ TooLarge = {}
    /\ validation = {[isValid |-> FALSE,
                      errors |-> <<[field |-> "person",
                                    code |-> "CATEGORY_LIMIT_EXCEEDED"]>>]}

\* the paths a reply to POST api/fit/upload assigns
PathsAssigned(r) ==
    r.resp.personPath
    \cup {r.resp.itemPaths[k] : k \in 1..Len(r.resp.itemPaths)}

\* the user whose bearer token the request carries, if any
BearerOf(r) ==
    IF r.hdr.scheme # "Bearer" THEN {}
    ELSE IF r.hdr.token = "t1" THEN {"u1"}
    ELSE IF r.hdr.token = "t2" THEN {"u2"}
    ELSE {}

\* C15: a request to the pre-validate-upload endpoint without a valid
\* bearer token is never given path assignments, and every path that is
\* assigned lies in the namespace of the authenticated caller.
C15_BearerRequired ==
    \A r \in reply :
        PathsAssigned(r) # {} =>
            /\ BearerOf(r) # {}
            /\ \A u \in BearerOf(r), path \in PathsAssigned(r) :
                  InNamespace(path, u)

\* the step is a submit request whose upload goes to a path that holds an
\* object already
UploadToOccupiedPath ==
    /\ last'.op = "simulate"
    /\ Len(last'.out.uploads) = 1
    /\ \E o \in objects : o.path = last'.out.uploads[1].path

C16_Immutable ==
    /\ \A J \in jobs : J \in jobs'
    /\ \A J \in jobs' \ jobs : \A K \in jobs : K.id # J.id
    /\ \A o \in objects : o \in objects'
    /\ \A o \in objects' \ objects : \A q \in objects : q.path # o.path
    /\ UploadToOccupiedPath =>
          /\ last'.out.resp.status = 500
          /\ last'.out.resp.error = "Failed to store preview image"
          /\ last'.out.jobInserts = <<>>
          /\ Count(last'.out.ops, "jobs.insert") = 0
          /\ jobs' = jobs
          /\ objects' = objects

\* C16: no request to any endpoint updates or deletes a stored Job row
\* (a row with its id, owner, inputs, artifact path and status stays as
\* inserted, and no second row takes its id), no stored artifact object is
\* replaced or removed, and an upload to an occupied path is answered as a
\* storage error without a Job insert.
C16_NeverMutated == [][C16_Immutable]_vars

\* u2 submits and randomUUID returns j1, whose artifact u2/j1.webp exists
C16_Witness ==
    /\ last.op = "simulate"
    /\ CallerIs("u2")
    /\ last.jobId = "j1"
    /\ Len(last.out.uploads) = 1
    /\ last.out.uploads[1].path = <<"u2", "/", "j1", ".webp">>
    /\ last.out.resp.status = 500
    /\ last.out.resp.error = "Failed to store preview image"
    /\ jobs = SeedJobs
    /\ objects = SeedObjects

\* The largest number of item references a Job row may carry
MaxItemRefs == UPLOAD_CONSTRAINTS.items.max

\* C17: every persisted Job row has one non-empty subject path and at most
\* three item paths, and each of these paths starts with the prefix
\* '<user_id>/' of the row's owner.
C17_RowShape ==
    \A J \in jobs :
        /\ J.person_path # <<>>
        /\ InNamespace(J.person_path, J.user_id)
        /\ Len(J.item_paths) <= MaxItemRefs
        /\ \A i \in 1..Len(J.item_paths) :
              InNamespace(J.item_paths[i], J.user_id)

\* the time since start(), as the monitor measures it
ElapsedSinceStart == time - startTime

\* executeWithRetry decides to go on to another attempt
DecidesToRetry == pc = "catch" /\ pc' = "sleep"

\* the wrapped operation is invoked
Invokes == Len(calls') = Len(calls) + 1

C18_Step ==
    /\ DecidesToRetry =>
          /\ lastError # {}
          /\ attempt < perfConfig.retryAttempts
          /\ ElapsedSinceStart + perfConfig.retryDelayMs
                < perfConfig.maxDurationMs
    /\ (attempt' > attempt /\ attempt >= 1) =>
          /\ pc = "sleep"
          /\ attempt' = attempt + 1
          /\ attempt' <= perfConfig.retryAttempts
    /\ Invokes => ElapsedSinceStart < perfConfig.maxDurationMs
    /\ (Invokes /\ Len(calls) >= 1) =>
          calls[Len(calls)].status \in {"rejected", "abandoned",
                                        "settled late"}

\* C18: executeWithRetry goes on to another attempt only after a failure,
\* with fewer than retryAttempts attempts made and with elapsed +
\* retryDelayMs < maxDurationMs when it decides; and it never invokes the
\* operation when the time elapsed since start() has reached maxDurationMs.
C18_RetryOnlyWithinBudget == [][C18_Step]_vars

\* the first invocation was rejected and the second attempt invoked the
\* operation again, inside the budget
C18_Witness ==
    /\ Len(calls) = 2
    /\ calls[1].status = "rejected"
    /\ calls[2].attempt = 2
    /\ calls[2].status = "running"
    /\ calls[2].startedAt - startTime < perfConfig.maxDurationMs
    /\ calls[2].startedAt - startTime > perfConfig.retryDelayMs

\* the attempt waiting on invocation k gives up on it at this step
GivesUpOn(k) == calls[k].status = "running" /\ calls'[k].status = "abandoned"

\* invocation k, given up on earlier, produces its result at this step
SettlesLate(k) ==
    calls[k].status = "abandoned" /\ calls'[k].status = "settled late"

\* what executeWithRetry returned is the result of its current invocation,
\* produced within timeoutMs
C19_ResultIsCurrent ==
    pc = "returned" =>
        /\ outcome.kind = "value"
        /\ outcome.value = Len(calls)
        /\ calls[outcome.value].does.settles
        /\ calls[outcome.value].does.result = "ok"
        /\ calls[outcome.value].does.dur <= perfConfig.timeoutMs
        /\ \A k \in 1..(Len(calls) - 1) :
              calls[k].status \in {"rejected", "abandoned", "settled late"}

C19_Step ==
    \A k \in 1..Len(calls) :
        /\ GivesUpOn(k) =>
              /\ time' = calls[k].startedAt + perfConfig.timeoutMs
              /\ pc' = "catch"
              /\ lastError' = {[text |-> "Operation timed out after",
                                n |-> perfConfig.timeoutMs]}
              /\ calls'[k].does = calls[k].does
              /\ Len(calls') = Len(calls)
        /\ SettlesLate(k) =>
              /\ pc' = pc
              /\ outcome' = outcome
              /\ attempt' = attempt
              /\ lastError' = lastError
              /\ timer' = timer
              /\ time' = time
              /\ \A j \in 1..Len(calls) : j # k => calls'[j] = calls[j]

\* C19: an attempt that waits longer than timeoutMs is counted as failed
\* with the timeout error while its invocation is left to run; a result
\* that such an invocation produces later is not what executeWithRetry
\* returns, and the step that produces it changes nothing in the attempt
\* counter, the last error, the timer, the other invocations or the
\* outcome.
C19_AbandonedNotCancelled == []C19_ResultIsCurrent /\ [][C19_Step]_vars

\* the first invocation, given up on, fulfilled while the second attempt
\* was waiting on its own invocation, and executeWithRetry returned the
\* second one's result
C19_Witness ==
    /\ Len(calls) = 2
    /\ calls[1].status = "settled late"
    /\ calls[1].does.result = "ok"
    /\ calls[1].startedAt + calls[1].does.dur > calls[2].startedAt
    /\ calls[1].startedAt + calls[1].does.dur
          < calls[2].startedAt + calls[2].does.dur
    /\ calls[2].status = "fulfilled"
    /\ pc = "returned"
    /\ outcome.value = 2

\* C20: whenever executeWithRetry has thrown, under any configuration
\* (retryAttempts = 0 too), the error carries the message of the last
\* failure that was caught and the time elapsed since start().
C20_ErrorNamesLastFailure ==
    pc = "thrown" =>
        /\ outcome.kind = "error"
        /\ outcome.lastError # {}
        /\ outcome.lastError = lastError
        /\ outcome.totalTime = time - startTime

\* the endpoints that mint signed URLs
MintingEndpoints == {"simulate", "view", "share"}

\* C21: in a process where NEXT_PUBLIC_SHARE_LINK_TTL_DAYS is not
\* configured, no request to submit, view or share is served by its
\* handler, and no signed URL is minted.
C21_NoTtlNoService ==
    (config.ttlDays = NotConfigured /\ last.op \in MintingEndpoints) =>
        /\ last.out.ops = <<>>
        /\ last.out.resp.status = 500
        /\ last.out.resp.signedUrl = {}
        /\ last.out.jobInserts = <<>>

\* the file set the page holds for upload
PageSet == [i \in 1..Len(originals) |-> originals[i].file]

\* the server-side pre-validation ran on the set fs and accepted it
Prevalidated(fs) ==
    \E r \in reply :
        /\ \A b \in r.body : b.files = {fs}
        /\ r.resp.status = 200
        /\ r.resp.success = "true"

\* C22: the upload page writes to 'fit-originals' only a file set that the
\* server-side pre-validation has accepted, and every set it writes is one
\* that validateUpload accepts.
C22_WriteAfterPrevalidation ==
    (navigated /\ originals # <<>>) =>
        LET n == 1 + Len(itemFiles)
            fs == SubSeq(PageSet, Len(originals) - n + 1, Len(originals))
        IN  /\ Prevalidated(fs)
            /\ validateUpload(fs).isValid

\* a request is taken up by its handler at this step
Handled == last = Idle /\ last' # Idle

\* C23: handling a request leaves no in-process state behind: the memory
\* the server keeps between requests (the error logger's array) is after
\* every request what it was before it.
C23_Stateless == [][Handled => logs' = logs]_vars

\* C24: a call of executeWithRetry with retryAttempts >= 1 that has ended
\* has invoked the wrapped operation at least once, whatever the monitor's
\* state was at the call (start() never called, or called long before).
C24_InvokedAtLeastOnce ==
    (pc \in {"returned", "thrown"} /\ perfConfig.retryAttempts >= 1) =>
        Len(calls) >= 1

\* executeWithRetry was called at the moment of start(): its first
\* invocation, or its end when it made none, is at startTime
CalledRightAfterStart ==
    IF calls = <<>> THEN time = startTime ELSE calls[1].startedAt = startTime

\* C25: executeWithRetry called right after start() has returned or thrown
\* by the time the elapsed time reaches maxDurationMs, for every
\* configuration and every behaviour of the wrapped operation.
C25_SettlesWithinBudget ==
    (pc \in {"returned", "thrown"} /\ CalledRightAfterStart) =>
        time - startTime <= perfConfig.maxDurationMs

\* executeWithRetry is running
Running == pc \in {"loop", "await", "catch", "sleep"}

\* C26: every call of executeWithRetry ends: whatever the configuration
\* and the wrapped operation (one that never settles too), it eventually
\* returns or throws, given that the timers it sets fire.
C26_Terminates == Running ~> (pc \in {"returned", "thrown"})

\* every invocation hung for ever, and executeWithRetry threw after the
\* timeout of the last attempt
C26_Witness ==
    /\ pc = "thrown"
    /\ Len(calls) = 2
    /\ \A k \in 1..Len(calls) :
          ~calls[k].does.settles /\ calls[k].status = "abandoned"
    /\ outcome.lastError = {TimeoutError(perfConfig)}

\* the rows that submit requests inserted
SubmitRows == jobs \ SeedJobs

\* a comes before b in the calls of a request
Before(ops, a, b) ==
    \E i, j \in 1..Len(ops) : i < j /\ ops[i] = a /\ ops[j] = b

\* every row of submit is a finished job whose artifact is stored under
\* '<user_id>/<id>.webp'
C27_Rows ==
    \A J \in SubmitRows :
        /\ J.status \in {"completed", "completed_stub"}
        /\ J.preview_path = <<J.user_id, "/", J.id, ".webp">>
        /\ \E o \in objects : o.path = J.preview_path

\* no read of a row of submit takes the branch for a job without artifact
C27_Gateway ==
    (last.op \in ReadOps /\ \E J \in SubmitRows : Asked = {J.id}) =>
        /\ last.out.resp.error # "No preview available for this job"
        /\ (last.op = "view" /\ last.out.resp.status = 200) =>
              Calls(last.out, "storage.createSignedUrl")

\* a row is inserted by a submit request, after the upload of its artifact
\* succeeded and the existence check was made
C27_Insert ==
    \A J \in jobs' \ jobs :
        /\ last'.op = "simulate"
        /\ Len(last'.out.uploads) = 1
        /\ last'.out.uploads[1].stored
        /\ last'.out.uploads[1].path = J.preview_path
        /\ \A o \in objects : o.path # J.preview_path
        /\ Before(last'.out.ops, "storage.upload", "storage.list")
        /\ Before(last'.out.ops, "storage.list", "jobs.insert")
        /\ last'.out.resp.status = 200

\* C27: every Job row that submit persists has status 'completed' or
\* 'completed_stub' and the preview_path '<user_id>/<id>.webp', whose
\* upload succeeded and whose existence was checked before the insert; no
\* read of such a row takes the gateway's branch for a job without artifact.
C27_RowsHaveArtifacts ==
    [](C27_Rows /\ C27_Gateway) /\ [][C27_Insert]_vars

\* the owner views the job that a submit request of theirs created
C27_Witness ==
    /\ last.op = "view"
    /\ \E J \in SubmitRows :
          /\ Asked = {J.id}
          /\ CallerIs(J.user_id)
          /\ last.out.resp.status = 200
          /\ last.out.resp.signedUrl =
                 {SignedUrl(<<J.user_id, "/", J.id, ".webp">>,
                            Lifetime(config.ttlDays))}

\* submit answered success:true
SubmitSucceeded == Submitted /\ last.out.resp.success = "true"

\* C28 as stated: whenever submit returns success:true with job id j to
\* user u, a Job row with id j owned by u exists.
C28_SuccessImpliesRow ==
    \A u \in Users :
        (SubmitSucceeded /\ CallerIs(u)) =>
            \E J \in jobs : last.out.resp.jobId = {J.id} /\ J.user_id = u

\* a successful submit names the job whose row it sent to the table, and
\* the row is there exactly when the table accepted it
C28_RowIfStored ==
    \A u \in Users :
        (SubmitSucceeded /\ CallerIs(u)) =>
            /\ Len(last.out.jobInserts) = 1
            /\ LET e == last.out.jobInserts[1]
               IN  /\ last.out.resp.jobId = {e.row.id}
                   /\ e.row.user_id = u
                   /\ e.stored => e.row \in jobs
                   /\ ~e.stored => e.row \notin jobs

\* the owner's view, download or share of a row of submit is not a 404
C28_OwnerFindsRow ==
    (last.op \in {"view", "download", "share"}
     /\ \E J \in SubmitRows : Asked = {J.id} /\ CallerIs(J.user_id)) =>
        last.out.resp.status # 404

\* C28, amended: whenever submit returns success:true with job id j to
\* user u and its Job insert was accepted, the row j owned by u exists and
\* u's later view, download or share of j does not answer 404; when the
\* insert was refused, success:true is returned all the same and the row
\* does not exist.
C28_SuccessAndStoredImpliesRow == C28_RowIfStored /\ C28_OwnerFindsRow

\* the Job insert of u1's successful submit was refused, and u1's view of
\* the job id it was given answers 404
C28_Witness ==
    /\ last.op = "view"
    /\ CallerIs("u1")
    /\ last.jobId = NewId(1)
    /\ last.out.resp.status = 404
    /\ \E i \in 1..Len(sim_metrics) :
          /\ sim_metrics[i].job_id = {NewId(1)}
          /\ sim_metrics[i].user_id = "u1"
          /\ sim_metrics[i].status \in {"completed", "completed_stub"}

\* the candidate set a request to the pre-validate endpoint carried
SentFiles(r) == UNION {b.files : b \in r.body}

\* the endpoint accepted the set of request r
Accepted(r) == r.resp.status = 200 /\ r.resp.success = "true"

\* C29: every candidate set the pre-validate endpoint accepts has at most
\* four files, each of category 'person' or 'item' (a file of any other
\* category makes the set rejected), and the endpoint assigns a storage
\* path to every file of the set.
C29_AcceptedSetsAreWellFormed ==
    \A r \in reply : \A fs \in SentFiles(r) :
        /\ Accepted(r) =>
              /\ validateUpload(fs).isValid
              /\ Len(fs) <= 4
              /\ \A i \in 1..Len(fs) : fs[i].category \in {"person", "item"}
              /\ Cardinality(r.resp.personPath) + Len(r.resp.itemPaths)
                    = Len(fs)
        /\ (\E i \in 1..Len(fs) : fs[i].category \notin {"person", "item"})
              => r.resp.status = 400

\* the set is empty, or one 'person' file followed by at most three 'item'
\* files
C30_SetShape ==
    /\ Len(files) <= 4
    /\ files # <<>> => files[1].category = "person"
    /\ \A i \in 2..Len(files) : files[i].category = "item"

\* what one call of canAddFile does to the set
C30_Addition ==
    \A a \in lastAdd' :
        /\ ~a.canAdd => files' = files /\ a.errors # <<>>
        /\ a.canAdd =>
              /\ Len(files') = Len(files) + 1
              /\ SubSeq(files', 1, Len(files)) = files
              /\ files'[Len(files')].type = a.file.type
              /\ files'[Len(files')].size = a.file.size
        /\ Len(files) >= 4 => ~a.canAdd

\* C30: from the empty set, adding a file only when canAddFile answers
\* canAdd (with the category of determineCategory), every set reached is
\* one 'person' file followed by at most three 'item' files; the fifth
\* addition is refused, and a refused addition leaves the set as it was.
C30_AddKeepsConstraints == []C30_SetShape /\ [][C30_Addition]_vars

\* a full set: a fifth file, valid in itself, was refused
C30_Witness ==
    /\ Len(files) = 4
    /\ validateCategoryConstraints(files) = <<>>
    /\ \E a \in lastAdd :
          /\ ~a.canAdd
          /\ a.file.type = "image/png"
          /\ a.file.size = 8 * 1024 * 1024
          /\ a.errors = <<ValidationError("items", "CATEGORY_LIMIT_EXCEEDED")>>
====
